---- MODULE Spec2Model ----
(***************************************************************************)
(* A model of marimba's plugin loading and command dispatch core:          *)
(*   - PipelineWrapper (src/marimba/core/wrappers/pipeline.py): lazy,      *)
(*     cached discovery of the plugin class, configuration load/save;      *)
(*   - load_pipeline_instance (src/marimba/core/parallel/                  *)
(*     pipeline_loader.py): the uncached loader;                           *)
(*   - ProjectWrapper (src/marimba/wrappers/project.py): run_command,      *)
(*     compose and update_pipelines over the registries of pipelines and   *)
(*     deployments.                                                        *)
(* The program is single-threaded.  A handler that calls into a plugin or  *)
(* walks a registry is modelled step by step (pc holds its position).  As  *)
(* in the command line (src/marimba/main.py), a process wraps the project  *)
(* directory, runs one handler of the ProjectWrapper and ends: pc goes     *)
(* from "idle" to "done".  Calls that follow one another on the same       *)
(* PipelineWrapper are the subject of the wrapper-level specifications.    *)
(***************************************************************************)
EXTENDS Integers, Sequences, FiniteSets, TLC

VARIABLES
    pipeline_wrappers,    \* ProjectWrapper._pipeline_wrappers: the keys, in insertion order
    deployment_wrappers,  \* ProjectWrapper._deployment_wrappers: the keys, in insertion order
    repo,                 \* per pipeline: the *.pipeline.py files under <pipeline>/repo
    pipeline_class,       \* per pipeline: PipelineWrapper._pipeline_class
    pipeline_config,      \* per pipeline: the content of <pipeline>/pipeline.yml
    deployment_config,    \* per deployment: the content of its configuration file
    sys_path,             \* the process-global module search path (sys.path)
    pc,                   \* the position of the running handler, "idle" when none runs
    frame,                \* the local variables of the running handler
    invocations,          \* what the plugin instances were called with, in call order
    outcome,              \* how the last handler ended
    last_call,            \* the last call made on a PipelineWrapper or on the loader
    errors_seen,          \* the discovery errors raised so far, with the number of files found
    disk,                 \* the directories and files that exist, as paths from the project root
    constructed           \* per pipeline: the plugin instances get_instance has constructed

vars == <<pipeline_wrappers, deployment_wrappers, repo, pipeline_class, pipeline_config,
          deployment_config, sys_path, pc, frame, invocations, outcome, last_call,
          errors_seen, disk, constructed>>

(***************************************************************************)
(* Bounds of the model.                                                    *)
(***************************************************************************)
NumPipelines == 2
NumDeployments == 2
MaxSysPath == 3
MaxPluginFiles == 2
MaxConstructed == 2
MaxExtraArgs == 2

AllPipelineNames == <<"camA", "camB", "camC", "camD">>
AllDeploymentNames == <<"dep1", "dep2", "dep3", "dep4">>
PipelineNames == {AllPipelineNames[i] : i \in 1..NumPipelines}
DeploymentNames == {AllDeploymentNames[i] : i \in 1..NumDeployments}

(***************************************************************************)
(* Python values.                                                          *)
(***************************************************************************)
None == "None"

Error(kind, text, subject) == [kind |-> kind, text |-> text, subject |-> subject]
NoError == Error("", "", <<>>)

\* An ordered dict: a sequence of <<key, value>> pairs with distinct keys.
DictKeys(d) == [i \in 1..Len(d) |-> d[i][1]]
DictHas(d, k) == \E i \in 1..Len(d) : d[i][1] = k
DictGet(d, k) == d[CHOOSE i \in 1..Len(d) : d[i][1] = k][2]
DictSet(d, k, v) ==
    IF DictHas(d, k)
    THEN [i \in 1..Len(d) |-> IF d[i][1] = k THEN <<k, v>> ELSE d[i]]
    ELSE Append(d, <<k, v>>)

SeqToSet(s) == {s[i] : i \in 1..Len(s)}
Perms(S) == {s \in [1..Cardinality(S) -> S] : \A i, j \in 1..Cardinality(S) : i # j => s[i] # s[j]}
\* The registries a project directory can give: any set of subdirectories, in
\* the order the filesystem enumerates them.
Enumerations(S) == UNION {Perms(T) : T \in SUBSET S}

(***************************************************************************)
(* Paths.                                                                  *)
(***************************************************************************)
repo_dir(p) == <<"pipelines", p, "repo">>
config_path(p) == <<"pipelines", p, "pipeline.yml">>
get_pipeline_data_dir(d, p) == <<"deployments", d, p>>
\* The configuration file of a deployment.
deployment_config_path(d) == <<"deployments", d, "deployment.yml">>
root_dir == <<>>
pipeline_dir == <<"pipelines">>
deployments_dir == <<"deployments">>
marimba_dir == <<".marimba">>
pipeline_root_dir(p) == <<"pipelines", p>>
deployment_root_dir(d) == <<"deployments", d>>
requirements_path(p) == <<"pipelines", p, "repo", "requirements.txt">>

\* What ProjectWrapper.create, PipelineWrapper.create and DeploymentWrapper.create
\* leave on disk.
ProjectDirs == {root_dir, pipeline_dir, deployments_dir, marimba_dir}
PipelineTree(p) == {pipeline_root_dir(p), repo_dir(p), config_path(p)}
\* A project whose pipelines and deployments are all in place, with a data
\* directory for every pair.
ProjectTree(pipelines, deployments) ==
    ProjectDirs
    \cup UNION {PipelineTree(p) : p \in pipelines}
    \cup {deployment_root_dir(d) : d \in deployments}
    \cup {deployment_config_path(d) : d \in deployments}
    \cup {get_pipeline_data_dir(d, p) : d \in deployments, p \in pipelines}

(***************************************************************************)
(* The configuration codec, marimba.core.utils.config (load_config and     *)
(* save_config).  A configuration is a flat mapping, here a set of         *)
(* <<key, value>> pairs with distinct keys; the file holds one line per    *)
(* key, in key order.                                                      *)
(***************************************************************************)
ConfigKeyOrder == <<"a", "b">>
ConfigValues == {1, 2}
ConfigKeys == SeqToSet(ConfigKeyOrder)
Mappings == {m \in SUBSET (ConfigKeys \X ConfigValues) :
                \A x, y \in m : x[1] = y[1] => x = y}

codec_dump(m) ==
    LET present == SelectSeq(ConfigKeyOrder, LAMBDA k : \E x \in m : x[1] = k)
    IN  [i \in 1..Len(present) |-> CHOOSE x \in m : x[1] = present[i]]
codec_parse(content) == SeqToSet(content)

\* An Optional[Dict]: <<>> is None, <<m>> is the mapping m.
NoneConfig == <<>>
Some(m) == <<m>>
OptionalConfigs == {NoneConfig} \cup {Some(m) : m \in Mappings}
\* Python truthiness of an Optional[Dict]: None and {} are falsy.
Truthy(config) == Len(config) = 1 /\ config[1] # {}

(***************************************************************************)
(* Plugin files.  What a repository can hold: each file is named after     *)
(* what executing it as a module does.                                     *)
(***************************************************************************)
PluginFiles == {"basic.pipeline.py", "custom.pipeline.py", "broken.pipeline.py",
                "empty.pipeline.py", "abstract.pipeline.py", "layered.pipeline.py"}

\* importlib.util.spec_from_file_location picks the loader by the file's
\* suffix: a path ending in .py always gets a spec with a source loader.
spec_from_file_location(f) == [found |-> TRUE, loader |-> TRUE]

\* Executing the module: broken.pipeline.py raises while it executes.
exec_module_raises(f) == f = "broken.pipeline.py"
exec_module_error(f) == Error("RuntimeError", "raised while executing the module", <<f>>)

\* The module's namespace after execution, in definition order.
module_dict(f) ==
    CASE f = "basic.pipeline.py"  -> <<"Path", "BasePipeline", "BasicPipeline">>
      [] f = "custom.pipeline.py" -> <<"BasePipeline", "CustomPipeline">>
      [] f = "empty.pipeline.py"  -> <<"Path", "BasePipeline">>
      [] f = "abstract.pipeline.py" -> <<"BasePipeline", "AbstractPipeline">>
      [] f = "layered.pipeline.py" -> <<"BasePipeline", "AbstractPipeline", "LayeredPipeline">>
      [] OTHER -> <<>>

\* isinstance(obj, type) and issubclass(obj, BasePipeline) and obj is not BasePipeline
PipelineClasses == {"BasicPipeline", "CustomPipeline", "AbstractPipeline", "LayeredPipeline",
                    "ComposeOnlyPipeline"}
is_pipeline_implementation(obj) == obj \in PipelineClasses

\* The methods of BasePipeline a plugin class overrides, its own or inherited
\* from a plugin base class: AbstractPipeline leaves _compose out,
\* LayeredPipeline derives from AbstractPipeline and adds it, and
\* ComposeOnlyPipeline overrides nothing else.
class_overrides(class) ==
    CASE class = "AbstractPipeline" -> {"_import", "_process"}
      [] class = "ComposeOnlyPipeline" -> {"_compose"}
      [] class \in {"BasicPipeline", "CustomPipeline", "LayeredPipeline"} ->
            {"_import", "_process", "_compose"}
      [] OTHER -> {}
\* The @abstractmethod of BasePipeline, and the ones a class has not overridden.
AbstractMethods == {"_compose"}
abstract_methods(class) == AbstractMethods \ class_overrides(class)

\* hasattr(instance, command_name): BasePipeline gives every plugin run_import,
\* run_process and run_compose; CustomPipeline defines run_custom as well.
BaseCommands == {"run_import", "run_process", "run_compose"}
hasattr(instance, command_name) ==
    \/ command_name \in BaseCommands
    \/ instance.class = "CustomPipeline" /\ command_name = "run_custom"

\* BasePipeline.__init__ called on the class `class`: the instance.
BasePipeline(class, root_path, config, dry_run) ==
    [class |-> class, root_path |-> root_path, config |-> config, dry_run |-> dry_run]
NoInstance == BasePipeline(None, <<>>, {}, FALSE)

\* pipeline_class(root_path, config=..., dry_run=...) without the test ABCMeta
\* makes.
instantiate_abstract_too(class, root_path, config, dry_run) ==
    [error |-> NoError, instance |-> BasePipeline(class, root_path, config, dry_run)]
\* pipeline_class(root_path, config=..., dry_run=...): ABCMeta refuses a class
\* that still has an abstract method, before __init__ runs.
instantiate(class, root_path, config, dry_run) ==
    IF abstract_methods(class) # {}
    THEN [error |-> Error("TypeError", "Can't instantiate abstract class", <<class>>),
          instance |-> NoInstance]
    ELSE [error |-> NoError, instance |-> BasePipeline(class, root_path, config, dry_run)]

(***************************************************************************)
(* The result of a call that may raise and that changes the wrapper's      *)
(* cache and sys.path: the error raised (NoError when it returned), the    *)
(* value returned, the cache and sys.path it left, and whether it scanned  *)
(* the repository and executed a module.                                   *)
(***************************************************************************)
Returned(value, cache, path, scanned, executed) ==
    [error |-> NoError, value |-> value, cache |-> cache, sys_path |-> path,
     scanned |-> scanned, executed |-> executed]
Raised(error, value, cache, path, scanned, executed) ==
    [error |-> error, value |-> value, cache |-> cache, sys_path |-> path,
     scanned |-> scanned, executed |-> executed]

\* A scan without the test `obj is not BasePipeline`.
first_implementation_or_base(symbols) ==
    IF \E i \in 1..Len(symbols) : symbols[i] \in PipelineClasses \cup {"BasePipeline"}
    THEN symbols[CHOOSE i \in 1..Len(symbols) :
                    /\ symbols[i] \in PipelineClasses \cup {"BasePipeline"}
                    /\ \A j \in 1..(i - 1) : symbols[j] \notin PipelineClasses \cup {"BasePipeline"}]
    ELSE None
\* for _, obj in module.__dict__.items(): the first implementation, else None
first_implementation(symbols) ==
    IF \E i \in 1..Len(symbols) : is_pipeline_implementation(symbols[i])
    THEN symbols[CHOOSE i \in 1..Len(symbols) :
                    /\ is_pipeline_implementation(symbols[i])
                    /\ \A j \in 1..(i - 1) : ~is_pipeline_implementation(symbols[j])]
    ELSE None

\* PipelineWrapper.get_pipeline_class, from spec_from_file_location on: the
\* import of the one plugin file found, with sys.path = `path`.
import_pipeline_class(pipeline_module_path, dir, path) ==
    LET pipeline_module_spec == spec_from_file_location(pipeline_module_path)
        inserted == <<dir>> \o path
    IN  IF ~pipeline_module_spec.found
        THEN Raised(Error("ImportError", "Could not load spec for", <<pipeline_module_path>>),
                    None, None, path, TRUE, FALSE)
        ELSE IF ~pipeline_module_spec.loader
        THEN Raised(Error("ImportError", "Could not find loader for", <<pipeline_module_path>>),
                    None, None, inserted, TRUE, FALSE)
        ELSE IF exec_module_raises(pipeline_module_path)
        THEN Raised(exec_module_error(pipeline_module_path),
                    None, None, inserted, TRUE, TRUE)
        ELSE
          LET found == first_implementation(module_dict(pipeline_module_path))
          IN  Returned(found, found, Tail(inserted), TRUE, TRUE)

\* PipelineWrapper.get_pipeline_class, the body of `if self._pipeline_class is
\* None`: the glob of a repository that holds `files` and lies at `dir`.
discover_pipeline_class_first_match(files, dir, path) ==
    IF Cardinality(files) = 0
    THEN Raised(Error("FileNotFoundError", "No pipeline implementation found in", dir),
                None, None, path, TRUE, FALSE)
    ELSE import_pipeline_class(CHOOSE f \in files : TRUE, dir, path)
discover_pipeline_class(files, dir, path) ==
    IF Cardinality(files) = 0
    THEN Raised(Error("FileNotFoundError", "No pipeline implementation found in", dir),
                None, None, path, TRUE, FALSE)
    ELSE IF Cardinality(files) > 1
    THEN Raised(Error("FileNotFoundError", "Multiple pipeline implementations found in", dir),
                None, None, path, TRUE, FALSE)
    ELSE import_pipeline_class(CHOOSE f \in files : TRUE, dir, path)

\* PipelineWrapper.get_pipeline_class on a wrapper whose cache is `cache`,
\* whose repository holds `files` and lies at `dir`, with sys.path = `path`.
get_pipeline_class_rescanning(cache, files, dir, path) ==
    discover_pipeline_class(files, dir, path)
get_pipeline_class(cache, files, dir, path) ==
    IF cache # None
    THEN Returned(cache, cache, path, FALSE, FALSE)
    ELSE discover_pipeline_class(files, dir, path)

\* A get_instance that calls whatever get_pipeline_class returned.
get_instance_calling_none(cache, files, dir, path, config_content, dry_run) ==
    LET got == get_pipeline_class(cache, files, dir, path)
    IN  IF got.error # NoError
        THEN [got EXCEPT !.value = NoInstance]
        ELSE IF got.value = None
        THEN Raised(Error("TypeError", "'NoneType' object is not callable", <<>>),
                    NoInstance, got.cache, got.sys_path, got.scanned, got.executed)
        ELSE LET made == instantiate(got.value, dir, codec_parse(config_content), dry_run)
             IN  IF made.error # NoError
                 THEN Raised(made.error, NoInstance, got.cache, got.sys_path, got.scanned,
                             got.executed)
                 ELSE [got EXCEPT !.value = made.instance]
\* PipelineWrapper.get_instance
get_instance(cache, files, dir, path, config_content, dry_run) ==
    LET got == get_pipeline_class(cache, files, dir, path)
    IN  IF got.error # NoError
        THEN [got EXCEPT !.value = NoInstance]
        ELSE IF got.value = None
        THEN Raised(Error("ImportError", "Pipeline class has not been set or could not be found.", <<>>),
                    NoInstance, got.cache, got.sys_path, got.scanned, got.executed)
        ELSE LET made == instantiate(got.value, dir, codec_parse(config_content), dry_run)
             IN  IF made.error # NoError
                 THEN Raised(made.error, NoInstance, got.cache, got.sys_path, got.scanned,
                             got.executed)
                 ELSE [got EXCEPT !.value = made.instance]

\* load_pipeline_instance(repo_dir, config_path, dry_run): no cache.
load_pipeline_instance(files, dir, path, config_content, dry_run) ==
    IF Cardinality(files) = 0
    THEN Raised(Error("FileNotFoundError", "No pipeline implementation found in", dir),
                NoInstance, None, path, TRUE, FALSE)
    ELSE IF Cardinality(files) > 1
    THEN Raised(Error("FileNotFoundError", "Multiple pipeline implementations found in", dir),
                NoInstance, None, path, TRUE, FALSE)
    ELSE
      LET pipeline_module_path == CHOOSE f \in files : TRUE
          pipeline_module_spec == spec_from_file_location(pipeline_module_path)
          inserted == <<dir>> \o path
      IN  IF ~pipeline_module_spec.found
          THEN Raised(Error("ImportError", "Could not load spec for", <<pipeline_module_path>>),
                      NoInstance, None, path, TRUE, FALSE)
          ELSE IF ~pipeline_module_spec.loader
          THEN Raised(Error("ImportError", "Could not find loader for", <<pipeline_module_path>>),
                      NoInstance, None, inserted, TRUE, FALSE)
          ELSE IF exec_module_raises(pipeline_module_path)
          THEN Raised(exec_module_error(pipeline_module_path),
                      NoInstance, None, inserted, TRUE, TRUE)
          ELSE
            LET pipeline_class_found == first_implementation(module_dict(pipeline_module_path))
            IN  IF pipeline_class_found = None
                THEN Raised(Error("ImportError", "Pipeline class has not been set or could not be found.", <<>>),
                            NoInstance, None, Tail(inserted), TRUE, TRUE)
                ELSE LET made == instantiate(pipeline_class_found, dir,
                                             codec_parse(config_content), dry_run)
                     IN  IF made.error # NoError
                         THEN Raised(made.error, NoInstance, None, Tail(inserted), TRUE, TRUE)
                         ELSE Returned(made.instance, None, Tail(inserted), TRUE, TRUE)

(***************************************************************************)
(* get_merged_keyword_args.  A string is a sequence of characters.         *)
(***************************************************************************)
RECURSIVE split_from(_, _, _, _)
\* The pieces of `s` from position i on, `piece` being the piece under way.
split_from(s, sep, i, piece) ==
    IF i > Len(s) THEN <<piece>>
    ELSE IF s[i] = sep THEN <<piece>> \o split_from(s, sep, i + 1, <<>>)
    ELSE split_from(s, sep, i + 1, Append(piece, s[i]))
\* str.split(sep)
split(s, sep) == split_from(s, sep, 1, <<>>)

\* A loop body that takes the text after the first "=" as the value.
extra_dict_entry_first_split(acc, arg) ==
    LET parts == split(arg, "=")
    IN  IF Len(parts) >= 2
        THEN <<DictSet(acc[1], parts[1], SubSeq(arg, Len(parts[1]) + 2, Len(arg))), acc[2]>>
        ELSE <<acc[1], Append(acc[2], arg)>>
\* The loop body, lines 60-66, on acc = <<extra_dict, warnings>>.
extra_dict_entry(acc, arg) ==
    LET parts == split(arg, "=")
    IN  IF Len(parts) = 2
        THEN <<DictSet(acc[1], parts[1], parts[2]), acc[2]>>
        ELSE <<acc[1], Append(acc[2], arg)>>

RECURSIVE extra_dict_of(_, _, _)
\* The loop over extra_args from entry i on: <<extra_dict, warnings>>.
extra_dict_of(extra_args, i, acc) ==
    IF i > Len(extra_args) THEN acc
    ELSE extra_dict_of(extra_args, i + 1, extra_dict_entry(acc, extra_args[i]))

RECURSIVE dict_update(_, _, _)
\* {**d, **e}: the entries of e from i on set in d.
dict_update(d, e, i) ==
    IF i > Len(e) THEN d ELSE dict_update(DictSet(d, e[i][1], e[i][2]), e, i + 1)

\* A merge in which the keyword arguments win: {**extra_dict, **kwargs}.
get_merged_keyword_args_kwargs_win(kwargs, extra_args) ==
    LET extra == extra_dict_of(extra_args, 1, <<<<>>, <<>>>>)
    IN  [merged |-> dict_update(extra[1], kwargs, 1), warnings |-> extra[2]]
\* get_merged_keyword_args(kwargs, extra_args, logger): the merged dict and
\* the entries a warning was logged for.
get_merged_keyword_args(kwargs, extra_args) ==
    LET extra == extra_dict_of(extra_args, 1, <<<<>>, <<>>>>)
    IN  [merged |-> dict_update(kwargs, extra[1], 1), warnings |-> extra[2]]

(***************************************************************************)
(* ProjectWrapper: the state between handlers.                             *)
(***************************************************************************)
IdleFrame ==
    [command_name |-> "", pipelines |-> <<>>, deployments |-> <<>>,
     merged_kwargs |-> <<>>, pipeline_to_run |-> <<>>, d |-> 1, p |-> 1,
     results_by_deployment |-> <<>>, results_by_pipeline |-> <<>>,
     attempted |-> <<>>, logged |-> <<>>]

\* How a handler ended: status is "running", "returned" or "raised".
Outcome(handler, args, status, error, value) ==
    [handler |-> handler, args |-> args, status |-> status, error |-> error, value |-> value]
NoOutcome == Outcome("", <<>>, "none", NoError, <<>>)

NoCall == [op |-> "", wrapper |-> None, arg |-> <<>>, files |-> {}, cache_before |-> None,
           sys_path_before |-> <<>>, content_before |-> <<>>, result |-> <<>>]

\* sys.path of a fresh interpreter: no repository directory is on it.
InitialSysPath == << <<"site-packages">> >>

\* The repositories of the registered pipelines the dispatch is explored on:
\* one that loads BasicPipeline, one that loads CustomPipeline, and one whose
\* load raises while the module executes.
DispatchRepos == {{"basic.pipeline.py"}, {"custom.pipeline.py"}, {"broken.pipeline.py"}}

\* The keyword arguments and the extra arguments the caller passes: m=1
\* overrides the keyword argument m, and the entry "x" is malformed.
KwargsChoices == {<< << <<"m">>, <<"0">> >>, << <<"n">>, <<"0">> >> >>}
ExtraArgsChoices == {<< <<"m", "=", "1">>, <<"x">> >>}
CommandNames == {"run_process", "run_custom"}

\* DeploymentWrapper.load_config
deployment_load_config(d) == codec_parse(deployment_config[d])

\* PipelineWrapper.load_pipeline of marimba.wrappers.pipeline: the plugin
\* instance of the wrapper, through the cached class.
load_pipeline(p) ==
    get_instance(pipeline_class[p], repo[p], repo_dir(p), sys_path, pipeline_config[p], FALSE)

InitProject ==
    /\ pipeline_wrappers \in Enumerations(PipelineNames)
    /\ deployment_wrappers \in Enumerations(DeploymentNames)
    /\ repo \in [PipelineNames -> DispatchRepos \cup {{}}]
    /\ \A p \in PipelineNames : repo[p] = {} <=> p \notin SeqToSet(pipeline_wrappers)
    /\ pipeline_class = [p \in PipelineNames |-> None]
    /\ pipeline_config = [p \in PipelineNames |-> codec_dump({<<"a", 1>>})]
    /\ deployment_config = [d \in DeploymentNames |-> << <<"site", d>> >>]
    /\ sys_path = InitialSysPath
    /\ pc = "idle"
    /\ frame = IdleFrame
    /\ invocations = <<>>
    /\ outcome = NoOutcome
    /\ last_call = NoCall
    /\ errors_seen = {}
    /\ disk = ProjectTree(SeqToSet(pipeline_wrappers), SeqToSet(deployment_wrappers))
    /\ constructed = [p \in PipelineNames |-> 0]

(***************************************************************************)
(* ProjectWrapper.run_command                                              *)
(***************************************************************************)
\* close_deployments with the return inside the outer loop: the aggregate is
\* returned after the first deployment.
close_deployments_return_early(f) ==
    IF f.d <= Len(f.deployments) /\ f.p > Len(f.pipelines)
    THEN [f EXCEPT !.results_by_deployment =
                       DictSet(f.results_by_deployment, f.deployments[f.d], f.results_by_pipeline),
                   !.results_by_pipeline = <<>>,
                   !.d = Len(f.deployments) + 1,
                   !.p = 1]
    ELSE f

RECURSIVE close_deployments(_)
\* The end of the inner loop: while the pipelines of deployment d are
\* exhausted, store results_by_pipeline under d and go on to the next one.
close_deployments(f) ==
    IF f.d <= Len(f.deployments) /\ f.p > Len(f.pipelines)
    THEN close_deployments(
           [f EXCEPT !.results_by_deployment =
                         DictSet(f.results_by_deployment, f.deployments[f.d], f.results_by_pipeline),
                     !.results_by_pipeline = <<>>,
                     !.d = f.d + 1,
                     !.p = 1])
    ELSE f

\* RunCommandStart without the two registry lookups: the names are taken as
\* given.
RunCommandStartUnchecked(command_name, pipeline_name, deployment_name, extra_args, kwargs) ==
    /\ pc = "idle"
    /\ LET args == <<command_name, pipeline_name, deployment_name>>
           merged_kwargs == get_merged_keyword_args(kwargs, extra_args).merged
       IN  /\ outcome' = Outcome("run_command", args, "running", NoError, <<>>)
           /\ frame' = [IdleFrame EXCEPT
                          !.command_name = command_name,
                          !.merged_kwargs = merged_kwargs,
                          !.pipelines = IF pipeline_name # None THEN <<pipeline_name>>
                                        ELSE pipeline_wrappers,
                          !.deployments = IF deployment_name # None THEN <<deployment_name>>
                                          ELSE deployment_wrappers]
           /\ pc' = "run_command_load"
    /\ invocations' = <<>>
    /\ UNCHANGED <<disk, constructed, pipeline_wrappers, deployment_wrappers, repo, pipeline_class, pipeline_config,
                   deployment_config, sys_path, last_call, errors_seen>>
\* Lines 338-352: merge the arguments, resolve the targets.
RunCommandStart(command_name, pipeline_name, deployment_name, extra_args, kwargs) ==
    /\ pc = "idle"
    /\ LET args == <<command_name, pipeline_name, deployment_name>>
           merged_kwargs == get_merged_keyword_args(kwargs, extra_args).merged
       IN  IF pipeline_name # None /\ pipeline_name \notin SeqToSet(pipeline_wrappers)
           THEN /\ outcome' = Outcome("run_command", args, "raised",
                                      Error("RunCommandError", "Instrument does not exist within the project.",
                                            <<pipeline_name>>), <<>>)
                /\ frame' = [IdleFrame EXCEPT !.command_name = command_name,
                                              !.merged_kwargs = merged_kwargs]
                /\ pc' = "done"
           ELSE IF deployment_name # None /\ deployment_name \notin SeqToSet(deployment_wrappers)
           THEN /\ outcome' = Outcome("run_command", args, "raised",
                                      Error("RunCommandError", "Deployment does not exist within the project.",
                                            <<deployment_name>>), <<>>)
                /\ frame' = [IdleFrame EXCEPT !.command_name = command_name,
                                              !.merged_kwargs = merged_kwargs]
                /\ pc' = "done"
           ELSE /\ outcome' = Outcome("run_command", args, "running", NoError, <<>>)
                /\ frame' = [IdleFrame EXCEPT
                               !.command_name = command_name,
                               !.merged_kwargs = merged_kwargs,
                               !.pipelines = IF pipeline_name # None THEN <<pipeline_name>>
                                             ELSE pipeline_wrappers,
                               !.deployments = IF deployment_name # None THEN <<deployment_name>>
                                               ELSE deployment_wrappers]
                /\ pc' = "run_command_load"
    /\ invocations' = <<>>
    /\ UNCHANGED <<disk, constructed, pipeline_wrappers, deployment_wrappers, repo, pipeline_class, pipeline_config,
                   deployment_config, sys_path, last_call, errors_seen>>

\* RunCommandLoad that skips a pipeline whose load raises and goes on with
\* the others.
RunCommandLoadSkipping ==
    /\ pc = "run_command_load"
    /\ Len(frame.pipeline_to_run) < Len(frame.pipelines)
    /\ LET i == Len(frame.pipeline_to_run) + 1
           name == frame.pipelines[i]
           got == load_pipeline(name)
       IN  /\ pipeline_class' = [pipeline_class EXCEPT ![name] = got.cache]
           /\ sys_path' = got.sys_path
           /\ IF got.error # NoError
              THEN frame' = [frame EXCEPT !.pipelines =
                                SubSeq(@, 1, i - 1) \o SubSeq(@, i + 1, Len(@))]
              ELSE frame' = [frame EXCEPT !.pipeline_to_run = DictSet(@, name, got.value)]
    /\ UNCHANGED <<disk, constructed, pipeline_wrappers, deployment_wrappers, repo, pipeline_config,
                   deployment_config, invocations, last_call, errors_seen, outcome, pc>>

\* Line 355: the next entry of the dict comprehension that loads the instances.
RunCommandLoad ==
    /\ pc = "run_command_load"
    /\ Len(frame.pipeline_to_run) < Len(frame.pipelines)
    /\ LET name == frame.pipelines[Len(frame.pipeline_to_run) + 1]
           got == load_pipeline(name)
       IN  /\ pipeline_class' = [pipeline_class EXCEPT ![name] = got.cache]
           /\ sys_path' = got.sys_path
           /\ IF got.error # NoError
              THEN /\ outcome' = [outcome EXCEPT !.status = "raised", !.error = got.error]
                   /\ pc' = "done"
                   /\ frame' = frame
              ELSE /\ frame' = [frame EXCEPT !.pipeline_to_run = DictSet(@, name, got.value)]
                   /\ UNCHANGED <<outcome, pc>>
    /\ UNCHANGED <<disk, constructed, pipeline_wrappers, deployment_wrappers, repo, pipeline_config,
                   deployment_config, invocations, last_call, errors_seen>>

\* RunCommandCheck without the check: a missing command is found when the
\* pair is reached.
RunCommandCheckSkipped ==
    /\ pc = "run_command_load"
    /\ Len(frame.pipeline_to_run) = Len(frame.pipelines)
    /\ frame' = close_deployments(frame)
    /\ pc' = "run_command_invoke"
    /\ UNCHANGED <<disk, constructed, pipeline_wrappers, deployment_wrappers, repo, pipeline_class, pipeline_config,
                   deployment_config, sys_path, invocations, last_call, errors_seen, outcome>>

\* Lines 358-363: the command exists for all loaded instances.
RunCommandCheck ==
    /\ pc = "run_command_load"
    /\ Len(frame.pipeline_to_run) = Len(frame.pipelines)
    /\ LET missing == {i \in 1..Len(frame.pipeline_to_run) :
                          ~hasattr(frame.pipeline_to_run[i][2], frame.command_name)}
       IN  IF missing # {}
           THEN LET first == CHOOSE i \in missing : \A j \in missing : i <= j
                IN  /\ outcome' = [outcome EXCEPT
                                     !.status = "raised",
                                     !.error = Error("RunCommandError", "Command does not exist for instrument",
                                                     <<frame.command_name, frame.pipeline_to_run[first][1]>>)]
                    /\ pc' = "done"
                    /\ frame' = frame
           ELSE /\ frame' = close_deployments(frame)
                /\ pc' = "run_command_invoke"
                /\ UNCHANGED outcome
    /\ UNCHANGED <<disk, constructed, pipeline_wrappers, deployment_wrappers, repo, pipeline_class, pipeline_config,
                   deployment_config, sys_path, invocations, last_call, errors_seen>>

\* An outer loop that takes the deployments from the last one to the first.
run_deployment_last_first(f) == f.deployments[Len(f.deployments) + 1 - f.d]
\* Line 364: the deployment the outer loop is at.
run_deployment(f) == f.deployments[f.d]

\* An invocation that loads the configuration once, from the first
\* deployment of the registry.
Invocation_one_config(command_name, d, p, instance, merged_kwargs, raises) ==
    [command |-> command_name, deployment |-> d, pipeline |-> p, instance |-> instance,
     data_dir |-> get_pipeline_data_dir(d, p),
     config |-> deployment_load_config(deployment_wrappers[1]),
     kwargs |-> merged_kwargs, raised |-> raises]
\* What the plugin's operation is called with (lines 368-373), and whether it
\* raised.
Invocation(command_name, d, p, instance, merged_kwargs, raises) ==
    [command |-> command_name, deployment |-> d, pipeline |-> p, instance |-> instance,
     data_dir |-> get_pipeline_data_dir(d, p), config |-> deployment_load_config(d),
     kwargs |-> merged_kwargs, raised |-> raises]
\* What the operation returns: a value of the plugin's, made from its arguments.
plugin_result(call) ==
    [by |-> call.instance.class, command |-> call.command, data_dir |-> call.data_dir,
     config |-> call.config, kwargs |-> call.kwargs]
plugin_error(call) == Error("PluginError", "raised by the plugin's operation", call.data_dir)

\* RunCommandInvoke that catches what the operation raises and goes on with
\* the next pair.
RunCommandInvokeCaught(raises) ==
    /\ pc = "run_command_invoke"
    /\ frame.d <= Len(frame.deployments)
    /\ LET run_deployment_name == run_deployment(frame)
           run_pipeline_name == frame.pipeline_to_run[frame.p][1]
           run_pipeline == frame.pipeline_to_run[frame.p][2]
           call == Invocation(frame.command_name, run_deployment_name, run_pipeline_name,
                              run_pipeline, frame.merged_kwargs, raises)
       IN  /\ invocations' = Append(invocations, call)
           /\ frame' = close_deployments(
                          [frame EXCEPT !.results_by_pipeline =
                                            IF raises THEN @
                                            ELSE DictSet(@, run_pipeline_name, plugin_result(call)),
                                        !.p = frame.p + 1])
    /\ UNCHANGED <<disk, constructed, pipeline_wrappers, deployment_wrappers, repo, pipeline_class, pipeline_config,
                   deployment_config, sys_path, last_call, errors_seen, outcome, pc>>

\* Lines 364-375: the invocation for the pair (deployment d, pipeline p); the
\* plugin's operation returns or raises.
RunCommandInvoke(raises) ==
    /\ pc = "run_command_invoke"
    /\ frame.d <= Len(frame.deployments)
    /\ LET run_deployment_name == run_deployment(frame)
           run_pipeline_name == frame.pipeline_to_run[frame.p][1]
           run_pipeline == frame.pipeline_to_run[frame.p][2]
           call == Invocation(frame.command_name, run_deployment_name, run_pipeline_name,
                              run_pipeline, frame.merged_kwargs, raises)
       IN  /\ invocations' = Append(invocations, call)
           /\ IF raises
              THEN /\ outcome' = [outcome EXCEPT !.status = "raised", !.error = plugin_error(call)]
                   /\ pc' = "done"
                   /\ frame' = frame
              ELSE /\ frame' = close_deployments(
                                 [frame EXCEPT !.results_by_pipeline =
                                                   DictSet(@, run_pipeline_name, plugin_result(call)),
                                               !.p = frame.p + 1])
                   /\ UNCHANGED <<outcome, pc>>
    /\ UNCHANGED <<disk, constructed, pipeline_wrappers, deployment_wrappers, repo, pipeline_class, pipeline_config,
                   deployment_config, sys_path, last_call, errors_seen>>

\* Line 377: return results_by_deployment.
RunCommandReturn ==
    /\ pc = "run_command_invoke"
    /\ frame.d > Len(frame.deployments)
    /\ outcome' = [outcome EXCEPT !.status = "returned", !.value = frame.results_by_deployment]
    /\ pc' = "done"
    /\ UNCHANGED <<disk, constructed, pipeline_wrappers, deployment_wrappers, repo, pipeline_class, pipeline_config,
                   deployment_config, sys_path, frame, invocations, last_call, errors_seen>>

RunCommand ==
    \/ \E command_name \in CommandNames, pipeline_name \in PipelineNames \cup {None},
          deployment_name \in DeploymentNames \cup {None},
          extra_args \in ExtraArgsChoices, kwargs \in KwargsChoices :
            RunCommandStart(command_name, pipeline_name, deployment_name, extra_args, kwargs)
    \/ RunCommandLoad
    \/ RunCommandCheck
    \/ \E raises \in BOOLEAN : RunCommandInvoke(raises)
    \/ RunCommandReturn

(***************************************************************************)
(* ProjectWrapper.compose                                                  *)
(***************************************************************************)
MaxComposeNames == 2
DeploymentNameLists == UNION {[1..n -> DeploymentNames] : n \in 0..MaxComposeNames}

\* What run_compose is called with (line 423), and whether it raised.
ComposeInvocation(p, instance, data_dirs, configs, merged_kwargs, raises) ==
    [command |-> "run_compose", pipeline |-> p, instance |-> instance,
     data_dirs |-> data_dirs, configs |-> configs, kwargs |-> merged_kwargs, raised |-> raises]
compose_result(call) ==
    [by |-> call.instance.class, command |-> call.command, data_dirs |-> call.data_dirs,
     configs |-> call.configs, kwargs |-> call.kwargs]
compose_error(call) == Error("PluginError", "raised by the plugin's operation", call.data_dirs)

\* Lines 417 and 420: the data directories and the configurations of the
\* deployment wrappers, in the order of the list.
deployment_data_dirs(names, pipeline_name) ==
    [i \in 1..Len(names) |-> get_pipeline_data_dir(names[i], pipeline_name)]
\* deployment_configs that walks the registry instead of the list.
deployment_configs_registry_order(names) ==
    LET ordered == SelectSeq(deployment_wrappers, LAMBDA d : d \in SeqToSet(names))
    IN  [i \in 1..Len(ordered) |-> deployment_load_config(ordered[i])]
deployment_configs(names) ==
    [i \in 1..Len(names) |-> deployment_load_config(names[i])]

\* compose that goes through all the names and reports the last one missing.
ComposeReportsLastMissing(pipeline_name, deployment_names, extra_args, kwargs, raises) ==
    /\ pc = "idle"
    /\ LET args == <<pipeline_name, deployment_names>>
           merged_kwargs == get_merged_keyword_args(kwargs, extra_args).merged
           got == load_pipeline(pipeline_name)
           unknown == {i \in 1..Len(deployment_names) :
                          deployment_names[i] \notin SeqToSet(deployment_wrappers)}
           call == ComposeInvocation(pipeline_name, got.value,
                                     deployment_data_dirs(deployment_names, pipeline_name),
                                     deployment_configs(deployment_names), merged_kwargs, raises)
       IN  IF pipeline_name \notin SeqToSet(pipeline_wrappers)
           THEN /\ outcome' = Outcome("compose", args, "raised",
                                      Error("NoSuchPipelineError", "", <<pipeline_name>>), <<>>)
                /\ invocations' = <<>>
                /\ UNCHANGED <<pipeline_class, sys_path>>
           ELSE /\ pipeline_class' = [pipeline_class EXCEPT ![pipeline_name] = got.cache]
                /\ sys_path' = got.sys_path
                /\ IF got.error # NoError
                   THEN /\ outcome' = Outcome("compose", args, "raised", got.error, <<>>)
                        /\ invocations' = <<>>
                   ELSE IF unknown # {}
                   THEN /\ outcome' = Outcome("compose", args, "raised",
                                              Error("NoSuchDeploymentError", "",
                                                    <<deployment_names[CHOOSE i \in unknown :
                                                                         \A j \in unknown : i >= j]>>),
                                              <<>>)
                        /\ invocations' = <<>>
                   ELSE /\ invocations' = <<call>>
                        /\ outcome' = IF raises
                                      THEN Outcome("compose", args, "raised", compose_error(call), <<>>)
                                      ELSE Outcome("compose", args, "returned", NoError,
                                                   compose_result(call))
    /\ frame' = IdleFrame
    /\ pc' = "done"
    /\ UNCHANGED <<disk, constructed, pipeline_wrappers, deployment_wrappers, repo, pipeline_config,
                   deployment_config, last_call, errors_seen>>

\* ProjectWrapper.compose, lines 398-423.
Compose(pipeline_name, deployment_names, extra_args, kwargs, raises) ==
    /\ pc = "idle"
    /\ LET args == <<pipeline_name, deployment_names>>
           merged_kwargs == get_merged_keyword_args(kwargs, extra_args).merged
           got == load_pipeline(pipeline_name)
           unknown == {i \in 1..Len(deployment_names) :
                          deployment_names[i] \notin SeqToSet(deployment_wrappers)}
           call == ComposeInvocation(pipeline_name, got.value,
                                     deployment_data_dirs(deployment_names, pipeline_name),
                                     deployment_configs(deployment_names), merged_kwargs, raises)
       IN  IF pipeline_name \notin SeqToSet(pipeline_wrappers)
           THEN /\ outcome' = Outcome("compose", args, "raised",
                                      Error("NoSuchPipelineError", "", <<pipeline_name>>), <<>>)
                /\ invocations' = <<>>
                /\ UNCHANGED <<pipeline_class, sys_path>>
           ELSE /\ pipeline_class' = [pipeline_class EXCEPT ![pipeline_name] = got.cache]
                /\ sys_path' = got.sys_path
                /\ IF got.error # NoError
                   THEN /\ outcome' = Outcome("compose", args, "raised", got.error, <<>>)
                        /\ invocations' = <<>>
                   ELSE IF unknown # {}
                   THEN /\ outcome' = Outcome("compose", args, "raised",
                                              Error("NoSuchDeploymentError", "",
                                                    <<deployment_names[CHOOSE i \in unknown :
                                                                         \A j \in unknown : i <= j]>>),
                                              <<>>)
                        /\ invocations' = <<>>
                   ELSE /\ invocations' = <<call>>
                        /\ outcome' = IF raises
                                      THEN Outcome("compose", args, "raised", compose_error(call), <<>>)
                                      ELSE Outcome("compose", args, "returned", NoError,
                                                   compose_result(call))
    /\ frame' = IdleFrame
    /\ pc' = "done"
    /\ UNCHANGED <<disk, constructed, pipeline_wrappers, deployment_wrappers, repo, pipeline_config,
                   deployment_config, last_call, errors_seen>>

(***************************************************************************)
(* PipelineWrapper.update and ProjectWrapper.update_pipelines              *)
(***************************************************************************)
\* What a pull can end with: it raises, or it leaves the repository with the
\* plugin files `pulled`.
GitError == Error("GitCommandError", "pull failed", <<>>)
\* What the pulls of update_pipelines leave: a repository that loads, or one
\* without a plugin file.
PulledRepos == {{"basic.pipeline.py"}, {}}

UpdatePipelinesStart ==
    /\ pc = "idle"
    /\ pc' = "update_pipelines"
    /\ frame' = IdleFrame
    /\ outcome' = Outcome("update_pipelines", <<>>, "running", NoError, <<>>)
    /\ invocations' = <<>>
    /\ UNCHANGED <<disk, constructed, pipeline_wrappers, deployment_wrappers, repo, pipeline_class, pipeline_config,
                   deployment_config, sys_path, last_call, errors_seen>>

\* UpdatePipelinesStep without the try: what update() raises ends the loop.
UpdatePipelinesStepUncaught(raises, pulled) ==
    /\ pc = "update_pipelines"
    /\ Len(frame.attempted) < Len(pipeline_wrappers)
    /\ LET pipeline_name == pipeline_wrappers[Len(frame.attempted) + 1]
       IN  IF raises
           THEN /\ frame' = [frame EXCEPT !.attempted = Append(@, <<pipeline_name, TRUE>>)]
                /\ outcome' = [outcome EXCEPT !.status = "raised", !.error = GitError]
                /\ pc' = "done"
                /\ UNCHANGED repo
           ELSE /\ frame' = [frame EXCEPT
                               !.attempted = Append(@, <<pipeline_name, FALSE>>),
                               !.logged = Append(@, <<"info", "Successfully updated instrument", pipeline_name>>)]
                /\ repo' = [repo EXCEPT ![pipeline_name] = pulled]
                /\ UNCHANGED <<outcome, pc>>
    /\ UNCHANGED <<disk, constructed, pipeline_wrappers, deployment_wrappers, pipeline_class, pipeline_config,
                   deployment_config, sys_path, invocations, last_call, errors_seen>>

\* Lines 456-462: one turn of the loop; the pull raises or leaves `pulled`.
\* frame.attempted records the wrappers update() was called on, and whether
\* the call raised.
UpdatePipelinesStep(raises, pulled) ==
    /\ pc = "update_pipelines"
    /\ Len(frame.attempted) < Len(pipeline_wrappers)
    /\ LET pipeline_name == pipeline_wrappers[Len(frame.attempted) + 1]
       IN  IF raises
           THEN /\ frame' = [frame EXCEPT
                               !.attempted = Append(@, <<pipeline_name, TRUE>>),
                               !.logged = Append(@, <<"error", "Failed to update instrument", pipeline_name>>)]
                /\ UNCHANGED repo
           ELSE /\ frame' = [frame EXCEPT
                               !.attempted = Append(@, <<pipeline_name, FALSE>>),
                               !.logged = Append(@, <<"info", "Successfully updated instrument", pipeline_name>>)]
                /\ repo' = [repo EXCEPT ![pipeline_name] = pulled]
    /\ UNCHANGED <<disk, constructed, pipeline_wrappers, deployment_wrappers, pipeline_class, pipeline_config,
                   deployment_config, sys_path, pc, invocations, outcome, last_call, errors_seen>>

UpdatePipelinesReturn ==
    /\ pc = "update_pipelines"
    /\ Len(frame.attempted) = Len(pipeline_wrappers)
    /\ pc' = "done"
    /\ outcome' = [outcome EXCEPT !.status = "returned"]
    /\ UNCHANGED <<disk, constructed, pipeline_wrappers, deployment_wrappers, repo, pipeline_class, pipeline_config,
                   deployment_config, sys_path, frame, invocations, last_call, errors_seen>>

UpdatePipelines ==
    \/ UpdatePipelinesStart
    \/ \E raises \in BOOLEAN, pulled \in PulledRepos : UpdatePipelinesStep(raises, pulled)
    \/ UpdatePipelinesReturn

ComposeAny ==
    \E pipeline_name \in PipelineNames, deployment_names \in DeploymentNameLists,
       extra_args \in ExtraArgsChoices, kwargs \in KwargsChoices, raises \in BOOLEAN :
        Compose(pipeline_name, deployment_names, extra_args, kwargs, raises)

Next == RunCommand \/ ComposeAny \/ UpdatePipelines

Spec == InitProject /\ [][Next]_vars

(***************************************************************************)
(* One PipelineWrapper, and the loader: calls that follow one another.     *)
(***************************************************************************)
Wrapper == AllPipelineNames[1]

\* The plugin files a repository may hold.
RepoStates == {files \in SUBSET PluginFiles : Cardinality(files) <= MaxPluginFiles}

\* What a pull leaves in the repository: no plugin file, one, or two.
PulledStates ==
    {files \in RepoStates : Cardinality(files) <= 1} \cup {{"basic.pipeline.py", "custom.pipeline.py"}}

Call(op, arg, result) ==
    [op |-> op, wrapper |-> Wrapper, arg |-> arg, files |-> repo[Wrapper],
     cache_before |-> pipeline_class[Wrapper], sys_path_before |-> sys_path,
     content_before |-> pipeline_config[Wrapper], result |-> result]
NoResult == Returned(None, None, <<>>, FALSE, FALSE)

\* The discovery errors of a call: what it raised when the glob did not find
\* exactly one file.
DiscoveryErrors(fn, files, got) ==
    IF got.error # NoError /\ got.scanned /\ Cardinality(files) # 1
    THEN {[fn |-> fn, found |-> IF Cardinality(files) = 0 THEN "zero" ELSE "multiple",
           error |-> got.error]}
    ELSE {}

InitWrapperOn(contents, disks) ==
    /\ pipeline_wrappers = <<>>
    /\ deployment_wrappers = <<>>
    /\ repo \in [PipelineNames -> RepoStates]
    /\ \A p \in PipelineNames : p # Wrapper => repo[p] = {}
    /\ pipeline_class = [p \in PipelineNames |-> None]
    /\ pipeline_config \in [PipelineNames -> contents \cup {<<>>}]
    /\ pipeline_config[Wrapper] \in contents
    /\ \A p \in PipelineNames : p # Wrapper => pipeline_config[p] = <<>>
    /\ deployment_config = [d \in DeploymentNames |-> << <<"site", d>> >>]
    /\ sys_path = InitialSysPath
    /\ pc = "idle"
    /\ frame = IdleFrame
    /\ invocations = <<>>
    /\ outcome = NoOutcome
    /\ last_call = NoCall
    /\ errors_seen = {}
    /\ disk \in disks
    /\ constructed = [p \in PipelineNames |-> 0]

InitWrapperWith(contents) == InitWrapperOn(contents, {PipelineTree(Wrapper)})

InitWrapper == InitWrapperWith({codec_dump({<<"a", 1>>})})

\* A call of PipelineWrapper.get_pipeline_class.
GetPipelineClass ==
    /\ Len(sys_path) < MaxSysPath
    /\ LET got == get_pipeline_class(pipeline_class[Wrapper], repo[Wrapper], repo_dir(Wrapper), sys_path)
       IN  /\ pipeline_class' = [pipeline_class EXCEPT ![Wrapper] = got.cache]
           /\ sys_path' = got.sys_path
           /\ last_call' = Call("get_pipeline_class", <<>>, got)
           /\ errors_seen' = errors_seen \cup DiscoveryErrors("get_pipeline_class", repo[Wrapper], got)
    /\ UNCHANGED <<disk, constructed, pipeline_wrappers, deployment_wrappers, repo, pipeline_config,
                   deployment_config, pc, frame, invocations, outcome>>

\* get_instance that keeps the instance of its first call and returns it again.
GetInstanceCached ==
    /\ Len(sys_path) < MaxSysPath
    /\ constructed[Wrapper] < MaxConstructed
    /\ LET got == get_instance(pipeline_class[Wrapper], repo[Wrapper], repo_dir(Wrapper), sys_path,
                               pipeline_config[Wrapper], FALSE)
       IN  /\ pipeline_class' = [pipeline_class EXCEPT ![Wrapper] = got.cache]
           /\ sys_path' = got.sys_path
           /\ constructed' = [constructed EXCEPT
                                 ![Wrapper] = IF got.error = NoError /\ @ = 0 THEN 1 ELSE @]
           /\ last_call' = Call("get_instance", <<>>, got)
           /\ errors_seen' = errors_seen \cup DiscoveryErrors("get_instance", repo[Wrapper], got)
    /\ UNCHANGED <<disk, pipeline_wrappers, deployment_wrappers, repo, pipeline_config,
                   deployment_config, pc, frame, invocations, outcome>>

\* A call of PipelineWrapper.get_instance.
GetInstance ==
    /\ Len(sys_path) < MaxSysPath
    /\ constructed[Wrapper] < MaxConstructed
    /\ LET got == get_instance(pipeline_class[Wrapper], repo[Wrapper], repo_dir(Wrapper), sys_path,
                               pipeline_config[Wrapper], FALSE)
       IN  /\ pipeline_class' = [pipeline_class EXCEPT ![Wrapper] = got.cache]
           /\ sys_path' = got.sys_path
           /\ constructed' = [constructed EXCEPT
                                 ![Wrapper] = IF got.error = NoError THEN @ + 1 ELSE @]
           /\ last_call' = Call("get_instance", <<>>, got)
           /\ errors_seen' = errors_seen \cup DiscoveryErrors("get_instance", repo[Wrapper], got)
    /\ UNCHANGED <<disk, pipeline_wrappers, deployment_wrappers, repo, pipeline_config,
                   deployment_config, pc, frame, invocations, outcome>>

\* A call of load_pipeline_instance on the wrapper's repository and
\* configuration file.
LoadPipelineInstance(dry_run) ==
    /\ Len(sys_path) < MaxSysPath
    /\ LET got == load_pipeline_instance(repo[Wrapper], repo_dir(Wrapper), sys_path,
                                         pipeline_config[Wrapper], dry_run)
       IN  /\ sys_path' = got.sys_path
           /\ last_call' = Call("load_pipeline_instance", <<dry_run>>, got)
           /\ errors_seen' = errors_seen \cup DiscoveryErrors("load_pipeline_instance", repo[Wrapper], got)
    /\ UNCHANGED <<disk, constructed, pipeline_wrappers, deployment_wrappers, repo, pipeline_class, pipeline_config,
                   deployment_config, pc, frame, invocations, outcome>>

\* An update that drops the cached class when the pull succeeds.
UpdateClearingCache(raises, pulled) ==
    /\ repo' = IF raises THEN repo ELSE [repo EXCEPT ![Wrapper] = pulled]
    /\ pipeline_class' = IF raises THEN pipeline_class ELSE [pipeline_class EXCEPT ![Wrapper] = None]
    /\ last_call' = Call("update", <<>>,
                         IF raises THEN Raised(GitError, None, None, <<>>, FALSE, FALSE)
                         ELSE NoResult)
    /\ UNCHANGED <<disk, constructed, pipeline_wrappers, deployment_wrappers, pipeline_config,
                   deployment_config, sys_path, pc, frame, invocations, outcome, errors_seen>>
\* A call of PipelineWrapper.update: the pull raises, or leaves `pulled`.
Update(raises, pulled) ==
    /\ repo' = IF raises THEN repo ELSE [repo EXCEPT ![Wrapper] = pulled]
    /\ last_call' = Call("update", <<>>,
                         IF raises THEN Raised(GitError, None, None, <<>>, FALSE, FALSE)
                         ELSE NoResult)
    /\ UNCHANGED <<disk, constructed, pipeline_wrappers, deployment_wrappers, pipeline_class, pipeline_config,
                   deployment_config, sys_path, pc, frame, invocations, outcome, errors_seen>>

NextLoad ==
    \/ GetPipelineClass
    \/ \E dry_run \in BOOLEAN : LoadPipelineInstance(dry_run)
    \/ \E raises \in BOOLEAN, pulled \in PulledStates : Update(raises, pulled)

SpecLoad == InitWrapper /\ [][NextLoad]_vars

\* The calls of get_instance on one wrapper, between updates of its repository.
NextInstance ==
    \/ GetInstance
    \/ \E raises \in BOOLEAN, pulled \in PulledStates : Update(raises, pulled)

SpecInstance == InitWrapper /\ [][NextInstance]_vars

(***************************************************************************)
(* PipelineWrapper.load_config and save_config                             *)
(***************************************************************************)
\* PipelineWrapper.load_config
PipelineWrapper_load_config(content) == codec_parse(content)

\* PipelineWrapper.save_config: the content of the file after the call.
PipelineWrapper_save_config_always(content, config) ==
    IF Len(config) = 1 THEN codec_dump(config[1]) ELSE <<>>
PipelineWrapper_save_config(content, config) ==
    IF Truthy(config) THEN codec_dump(config[1]) ELSE content

SaveConfig(config) ==
    /\ pipeline_config' = [pipeline_config EXCEPT
                              ![Wrapper] = PipelineWrapper_save_config(@, config)]
    /\ last_call' = Call("save_config", config, NoResult)
    /\ UNCHANGED <<disk, constructed, pipeline_wrappers, deployment_wrappers, repo, pipeline_class,
                   deployment_config, sys_path, pc, frame, invocations, outcome, errors_seen>>

LoadConfig ==
    /\ last_call' = Call("load_config", <<>>,
                         [NoResult EXCEPT !.value = PipelineWrapper_load_config(pipeline_config[Wrapper])])
    /\ UNCHANGED <<disk, constructed, pipeline_wrappers, deployment_wrappers, repo, pipeline_class, pipeline_config,
                   deployment_config, sys_path, pc, frame, invocations, outcome, errors_seen>>

NextConfig ==
    \/ \E config \in OptionalConfigs : SaveConfig(config)
    \/ LoadConfig

InitConfig ==
    /\ InitWrapperWith({codec_dump(m) : m \in Mappings})
    /\ repo[Wrapper] = {"basic.pipeline.py"}

SpecConfig == InitConfig /\ [][NextConfig]_vars

(***************************************************************************)
(* ProjectWrapper.create, create_pipeline and create_deployment, and       *)
(* PipelineWrapper.create: calls that follow one another on one project.   *)
(***************************************************************************)
\* A pipeline directory outside any project, for direct calls of
\* PipelineWrapper.create.
StandaloneRoot == <<"standalone">>

\* The names of the subdirectories of a directory.
subdirs(d, parent) == {path[2] : path \in {x \in d : Len(x) = 2 /\ x[1] = parent[1]}}

\* What a handler remembers of the state it started in.
Before == [disk |-> disk, pipeline_wrappers |-> pipeline_wrappers,
           deployment_wrappers |-> deployment_wrappers]

CloneError == Error("GitCommandError", "clone failed", <<>>)

\* PipelineWrapper.create(root_dir, url) on the disk d: the error raised and
\* the disk it leaves.
PipelineWrapper_create_unchecked(d, root, clone_raises) ==
    IF clone_raises
    THEN [error |-> CloneError, disk |-> d \cup {root}]
    ELSE [error |-> NoError,
          disk |-> d \cup {root, root \o <<"repo">>, root \o <<"pipeline.yml">>}]
PipelineWrapper_create(d, root, clone_raises) ==
    IF root \in d
    THEN [error |-> Error("FileExistsError", "Pipeline root directory already exists.", root),
          disk |-> d]
    ELSE IF clone_raises
    THEN [error |-> CloneError, disk |-> d \cup {root}]
    ELSE [error |-> NoError,
          disk |-> d \cup {root, root \o <<"repo">>, root \o <<"pipeline.yml">>}]

\* PipelineWrapper._check_file_structure, called by the constructor.
PipelineWrapper_check_file_structure(d, root) ==
    {root, root \o <<"repo">>, root \o <<"pipeline.yml">>} \subseteq d

\* A _load_pipeline that leaves out the directories whose wrapper cannot be
\* constructed.
ProjectWrapper_load_pipeline_best_effort(d, listing) ==
    [error |-> NoError,
     wrappers |-> SelectSeq(listing,
                            LAMBDA name : PipelineWrapper_check_file_structure(d, pipeline_root_dir(name)))]
\* ProjectWrapper._load_pipeline when iterdir lists the subdirectories of
\* pipelines/ in the order `listing`: the registry it leaves and the error of
\* the first wrapper whose constructor raises.
ProjectWrapper_load_pipeline(d, listing) ==
    LET bad == {i \in 1..Len(listing) :
                   ~PipelineWrapper_check_file_structure(d, pipeline_root_dir(listing[i]))}
    IN  IF bad = {}
        THEN [error |-> NoError, wrappers |-> listing]
        ELSE LET first == CHOOSE i \in bad : \A j \in bad : i <= j
             IN  [error |-> Error("InvalidStructureError", "does not exist or is not a directory.",
                                  repo_dir(listing[first])),
                  wrappers |-> SubSeq(listing, 1, first - 1)]

\* ProjectWrapper.create
CreateProject ==
    /\ pc = "idle"
    /\ IF root_dir \in disk
       THEN /\ outcome' = Outcome("create", <<>>, "raised",
                                  Error("FileExistsError", "already exists.", root_dir), Before)
            /\ UNCHANGED <<disk, pipeline_wrappers, deployment_wrappers>>
       ELSE /\ disk' = disk \cup ProjectDirs
            /\ pipeline_wrappers' = <<>>
            /\ deployment_wrappers' = <<>>
            /\ outcome' = Outcome("create", <<>>, "returned", NoError, Before)
    /\ UNCHANGED <<repo, pipeline_class, pipeline_config, deployment_config, sys_path, pc,
                   frame, invocations, last_call, errors_seen, constructed>>

\* PipelineWrapper.create called directly, on StandaloneRoot.
PipelineWrapperCreate(clone_raises) ==
    /\ pc = "idle"
    /\ LET created == PipelineWrapper_create(disk, StandaloneRoot, clone_raises)
       IN  /\ disk' = created.disk
           /\ outcome' = Outcome("PipelineWrapper.create", <<StandaloneRoot>>,
                                 IF created.error = NoError THEN "returned" ELSE "raised",
                                 created.error, Before)
    /\ UNCHANGED <<pipeline_wrappers, deployment_wrappers, repo, pipeline_class, pipeline_config,
                   deployment_config, sys_path, pc, frame, invocations, last_call, errors_seen,
                   constructed>>

\* ProjectWrapper.create_pipeline(name, url): the clone raises or leaves the
\* plugin files `cloned`; iterdir lists pipelines/ in the order `listing`.
CreatePipeline(name, clone_raises, cloned) ==
    /\ pc = "idle"
    /\ root_dir \in disk
    /\ IF pipeline_root_dir(name) \in disk
       THEN /\ outcome' = Outcome("create_pipeline", <<name>>, "raised",
                                  Error("CreatePipelineError", "already exists.", <<name>>), Before)
            /\ UNCHANGED <<disk, pipeline_wrappers, repo, pipeline_class, pipeline_config>>
       ELSE LET created == PipelineWrapper_create(disk, pipeline_root_dir(name), clone_raises)
            IN  /\ disk' = created.disk
                /\ IF created.error # NoError
                   THEN /\ outcome' = Outcome("create_pipeline", <<name>>, "raised",
                                              created.error, Before)
                        /\ UNCHANGED <<pipeline_wrappers, repo, pipeline_class, pipeline_config>>
                   ELSE /\ repo' = [repo EXCEPT ![name] = cloned]
                        /\ pipeline_config' = [pipeline_config EXCEPT ![name] = codec_dump({})]
                        /\ pipeline_class' = [p \in PipelineNames |-> None]
                        /\ \E listing \in Perms(subdirs(created.disk, pipeline_dir)) :
                              LET loaded == ProjectWrapper_load_pipeline(created.disk, listing)
                              IN  /\ pipeline_wrappers' = loaded.wrappers
                                  /\ outcome' = Outcome("create_pipeline", <<name>>,
                                                        IF loaded.error = NoError
                                                        THEN "returned" ELSE "raised",
                                                        loaded.error, Before)
    /\ UNCHANGED <<deployment_wrappers, deployment_config, sys_path, pc, frame, invocations,
                   last_call, errors_seen, constructed>>

\* DeploymentWrapper.create(deployment_dir, {}): the deployment directory and
\* its configuration file, whose content is deployment_config[name].
DeploymentWrapper_create(d, name) ==
    d \cup {deployment_root_dir(name), deployment_config_path(name)}

\* create_deployment, lines 298-301: one data directory per registered
\* pipeline under the new deployment.
create_pipeline_data_dirs_every_name(d, name, pipelines) ==
    d \cup {get_pipeline_data_dir(name, p) : p \in PipelineNames}
create_pipeline_data_dirs(d, name, pipelines) ==
    d \cup {get_pipeline_data_dir(name, pipelines[i]) : i \in 1..Len(pipelines)}

\* ProjectWrapper.create_deployment(name, parent); parent is None or a name.
CreateDeployment(name, parent) ==
    /\ pc = "idle"
    /\ root_dir \in disk
    /\ IF deployment_root_dir(name) \in disk
       THEN /\ outcome' = Outcome("create_deployment", <<name, parent>>, "raised",
                                  Error("CreateDeploymentError", "already exists.", <<name>>),
                                  Before)
            /\ UNCHANGED <<disk, deployment_wrappers, deployment_config>>
       ELSE IF parent # None /\ parent \notin SeqToSet(deployment_wrappers)
       THEN /\ outcome' = Outcome("create_deployment", <<name, parent>>, "raised",
                                  Error("CreateDeploymentError",
                                        "The parent deployment does not exist.", <<parent>>),
                                  Before)
            /\ UNCHANGED <<disk, deployment_wrappers, deployment_config>>
       ELSE /\ disk' = create_pipeline_data_dirs(DeploymentWrapper_create(disk, name),
                                                 name, pipeline_wrappers)
            /\ deployment_config' = [deployment_config EXCEPT ![name] = codec_dump({})]
            /\ deployment_wrappers' \in Perms(subdirs(disk', deployments_dir))
            /\ outcome' = Outcome("create_deployment", <<name, parent>>, "returned", NoError,
                                  Before)
    /\ UNCHANGED <<pipeline_wrappers, repo, pipeline_class, pipeline_config, sys_path, pc,
                   frame, invocations, last_call, errors_seen, constructed>>

\* Before ProjectWrapper.create: nothing on disk.
InitCreate ==
    /\ pipeline_wrappers = <<>>
    /\ deployment_wrappers = <<>>
    /\ repo = [p \in PipelineNames |-> {}]
    /\ pipeline_class = [p \in PipelineNames |-> None]
    /\ pipeline_config = [p \in PipelineNames |-> <<>>]
    /\ deployment_config = [d \in DeploymentNames |-> <<>>]
    /\ sys_path = InitialSysPath
    /\ pc = "idle"
    /\ frame = IdleFrame
    /\ invocations = <<>>
    /\ outcome = NoOutcome
    /\ last_call = NoCall
    /\ errors_seen = {}
    /\ disk = {}
    /\ constructed = [p \in PipelineNames |-> 0]

\* The parent argument of create_deployment: none, or one deployment name,
\* which is registered in some states and not in others.
ParentArguments == {None, AllDeploymentNames[1]}

NextCreate ==
    \/ CreateProject
    \/ \E clone_raises \in BOOLEAN : PipelineWrapperCreate(clone_raises)
    \/ \E name \in PipelineNames, clone_raises \in BOOLEAN :
          CreatePipeline(name, clone_raises, {"basic.pipeline.py"})
    \/ \E name \in DeploymentNames, parent \in ParentArguments :
          CreateDeployment(name, parent)

SpecCreate == InitCreate /\ [][NextCreate]_vars

(***************************************************************************)
(* Properties of the dispatch.                                             *)
(***************************************************************************)
RunCommandRuns == outcome.handler = "run_command"
RunCommandEnded == pc = "done" /\ outcome.handler = "run_command"
RequestedCommand == outcome.args[1]
\* The targets of the running run_command, from its arguments.
FiltersRegistered ==
    /\ outcome.args[2] # None => outcome.args[2] \in SeqToSet(pipeline_wrappers)
    /\ outcome.args[3] # None => outcome.args[3] \in SeqToSet(deployment_wrappers)
TargetPipelines == IF outcome.args[2] # None THEN <<outcome.args[2]>> ELSE pipeline_wrappers
TargetDeployments == IF outcome.args[3] # None THEN <<outcome.args[3]>> ELSE deployment_wrappers
\* What loading pipeline p in a fresh process gives.
FreshLoad(p) ==
    get_instance(None, repo[p], repo_dir(p), InitialSysPath, pipeline_config[p], FALSE)
Loads(p) == FreshLoad(p).error = NoError
HasCommand(p, command_name) == Loads(p) /\ hasattr(FreshLoad(p).value, command_name)
InvocationsOf(d, p) ==
    {i \in 1..Len(invocations) : invocations[i].deployment = d /\ invocations[i].pipeline = p}
NoInvocationRaised == \A i \in 1..Len(invocations) : ~invocations[i].raised
RECURSIVE LeafCountFrom(_, _)
LeafCountFrom(aggregate, i) ==
    IF i > Len(aggregate) THEN 0
    ELSE Len(aggregate[i][2]) + LeafCountFrom(aggregate, i + 1)
LeafCount(aggregate) == LeafCountFrom(aggregate, 1)

\* C1: run_command without pipeline and deployment name, on a project where
\* every plugin loads and has the command and no invocation raises, returns
\* after exactly |pipelines| x |deployments| invocations of the command, one
\* per (deployment, pipeline) pair, and its aggregate has one leaf per pair.
C1_EveryPairInvokedOnce ==
    ( /\ RunCommandEnded
      /\ outcome.args[2] = None /\ outcome.args[3] = None
      /\ \A p \in SeqToSet(pipeline_wrappers) : HasCommand(p, RequestedCommand)
      /\ NoInvocationRaised )
    => /\ outcome.status = "returned"
       /\ Len(invocations) = Len(pipeline_wrappers) * Len(deployment_wrappers)
       /\ \A i \in 1..Len(invocations) : invocations[i].command = RequestedCommand
       /\ \A d \in SeqToSet(deployment_wrappers), p \in SeqToSet(pipeline_wrappers) :
            /\ Cardinality(InvocationsOf(d, p)) = 1
            /\ DictHas(outcome.value, d)
            /\ DictHas(DictGet(outcome.value, d), p)
       /\ LeafCount(outcome.value) = Len(pipeline_wrappers) * Len(deployment_wrappers)

C1_Witness ==
    /\ RunCommandEnded
    /\ outcome.args[2] = None /\ outcome.args[3] = None
    /\ outcome.status = "returned"
    /\ Len(pipeline_wrappers) = 2 /\ Len(deployment_wrappers) = 2
    /\ Len(invocations) = 4

\* C2: when the command is absent on one of the targeted, loaded plugin
\* instances, run_command raises RunCommandError naming a pipeline that lacks
\* it, and the command has been invoked on no pipeline.
SomeTargetLacksCommand ==
    /\ RunCommandRuns
    /\ FiltersRegistered
    /\ \A p \in SeqToSet(TargetPipelines) : Loads(p)
    /\ \E p \in SeqToSet(TargetPipelines) : ~HasCommand(p, RequestedCommand)
C2_MissingCommandBeforeAnyInvocation ==
    SomeTargetLacksCommand
    => /\ invocations = <<>>
       /\ pc = "done" =>
            /\ outcome.status = "raised"
            /\ outcome.error.kind = "RunCommandError"
            /\ outcome.error.subject[1] = RequestedCommand
            /\ outcome.error.subject[2] \in SeqToSet(TargetPipelines)
            /\ ~HasCommand(outcome.error.subject[2], RequestedCommand)

C2_Witness ==
    /\ SomeTargetLacksCommand
    /\ pc = "done"
    /\ outcome.error.kind = "RunCommandError"
    /\ \E p \in SeqToSet(TargetPipelines) : HasCommand(p, RequestedCommand)
    /\ Len(TargetDeployments) >= 1

\* C3: in run_command the plugin instance of every targeted pipeline is loaded
\* before the first invocation; when the load of a targeted pipeline fails,
\* run_command raises that load's error and nothing has been invoked.
SomeTargetFailsToLoad ==
    /\ RunCommandRuns
    /\ FiltersRegistered
    /\ \E p \in SeqToSet(TargetPipelines) : ~Loads(p)
C3_LoadsBeforeInvocations ==
    /\ (RunCommandRuns /\ invocations # <<>>)
       => /\ DictKeys(frame.pipeline_to_run) = TargetPipelines
          /\ \A p \in SeqToSet(TargetPipelines) :
               DictGet(frame.pipeline_to_run, p) = FreshLoad(p).value
    /\ SomeTargetFailsToLoad
       => /\ invocations = <<>>
          /\ pc = "done" =>
               /\ outcome.status = "raised"
               /\ \E p \in SeqToSet(TargetPipelines) : outcome.error = FreshLoad(p).error

C3_Witness ==
    /\ SomeTargetFailsToLoad
    /\ pc = "done"
    /\ outcome.status = "raised"
    /\ Len(frame.pipeline_to_run) = 1
    /\ Len(TargetPipelines) = 2
    /\ Len(TargetDeployments) >= 1

\* C4: when the invocation for a pair raises, run_command ends with the
\* plugin's error unmodified; the raising invocation is the last one made, no
\* pair has been invoked twice, and no aggregate is returned.
C4_InvocationFailureAborts ==
    \A i \in 1..Len(invocations) :
        (RunCommandRuns /\ invocations[i].raised)
        => /\ i = Len(invocations)
           /\ pc = "done"
           /\ outcome.status = "raised"
           /\ outcome.error = plugin_error(invocations[i])
           /\ outcome.value = <<>>
           /\ \A j, k \in 1..Len(invocations) :
                ( /\ invocations[j].deployment = invocations[k].deployment
                  /\ invocations[j].pipeline = invocations[k].pipeline ) => j = k

C4_Witness ==
    /\ RunCommandEnded
    /\ Len(invocations) = 2
    /\ invocations[2].raised
    /\ Len(TargetPipelines) * Len(TargetDeployments) = 4
    /\ frame.results_by_pipeline # <<>>

\* C5: compose calls run_compose exactly once, with two lists as long as
\* deployment_names, whose i-th data directory and i-th configuration are
\* those of the deployment deployment_names[i] (the data directory being that
\* deployment's directory for the pipeline).
ComposeEnded == pc = "done" /\ outcome.handler = "compose"
ComposeReachesPlugin ==
    /\ ComposeEnded
    /\ outcome.args[1] \in SeqToSet(pipeline_wrappers)
    /\ Loads(outcome.args[1])
    /\ \A i \in 1..Len(outcome.args[2]) : outcome.args[2][i] \in SeqToSet(deployment_wrappers)
C5_ComposePairsListsInOrder ==
    /\ ComposeReachesPlugin => Len(invocations) = 1
    /\ (ComposeEnded /\ invocations # <<>>)
       => LET call == invocations[1]
              names == outcome.args[2]
          IN  /\ Len(invocations) = 1
              /\ call.command = "run_compose"
              /\ Len(call.data_dirs) = Len(names)
              /\ Len(call.configs) = Len(names)
              /\ \A i \in 1..Len(names) :
                    /\ call.data_dirs[i] = <<"deployments", names[i], outcome.args[1]>>
                    /\ call.configs[i] = codec_parse(deployment_config[names[i]])

C5_Witness ==
    /\ ComposeReachesPlugin
    /\ outcome.status = "returned"
    /\ Len(outcome.args[2]) = 2
    /\ outcome.args[2][1] # outcome.args[2][2]
    /\ outcome.args[2] # deployment_wrappers

\* C6: update_pipelines calls update() on every registered pipeline exactly
\* once, in registry order, whichever of the calls raise; a raising call is
\* logged as an error, and update_pipelines returns normally.
UpdatePipelinesRuns == outcome.handler = "update_pipelines"
C6_UpdateAttemptsEveryPipeline ==
    UpdatePipelinesRuns
    => /\ outcome.status # "raised"
       /\ Len(frame.attempted) <= Len(pipeline_wrappers)
       /\ \A i \in 1..Len(frame.attempted) :
            /\ frame.attempted[i][1] = pipeline_wrappers[i]
            /\ frame.attempted[i][2] =>
                 frame.logged[i] = <<"error", "Failed to update instrument", pipeline_wrappers[i]>>
       /\ pc = "done" =>
            /\ outcome.status = "returned"
            /\ Len(frame.attempted) = Len(pipeline_wrappers)

C6_Witness ==
    /\ UpdatePipelinesRuns
    /\ pc = "done"
    /\ outcome.status = "returned"
    /\ Len(frame.attempted) = 2
    /\ frame.attempted[1][2]
    /\ ~frame.attempted[2][2]

(***************************************************************************)
(* Properties of a PipelineWrapper and of the loader.                      *)
(***************************************************************************)
LoadOps == {"get_pipeline_class", "get_instance", "load_pipeline_instance"}

C7_CachedCallAnswersFromCache ==
    (last_call.op = "get_pipeline_class" /\ last_call.cache_before # None) =>
        /\ last_call.result.error = NoError
        /\ last_call.result.value = last_call.cache_before
        /\ ~last_call.result.scanned
        /\ ~last_call.result.executed
        /\ pipeline_class[Wrapper] = last_call.cache_before
C7_ResolvedClassKept ==
    pipeline_class[Wrapper] # None => pipeline_class'[Wrapper] = pipeline_class[Wrapper]

\* C7: on one PipelineWrapper, once get_pipeline_class has resolved a class,
\* no later step replaces that class, and every later call of
\* get_pipeline_class returns it without scanning the repository and without
\* executing a module, whatever the repository holds by then.
C7_ResolvedClassReturnedWithoutRescan ==
    [](C7_CachedCallAnswersFromCache) /\ [][C7_ResolvedClassKept]_vars

\* A call on a wrapper with a resolved class whose repository an update has
\* emptied since.
C7_Witness ==
    /\ last_call.op = "get_pipeline_class"
    /\ last_call.cache_before # None
    /\ last_call.files = {}
    /\ last_call.result.value = last_call.cache_before

\* C8: save_config with None or with an empty mapping leaves the content of
\* the configuration file as it was, and after save_config with a non-empty
\* mapping load_config returns that mapping.
C8_SaveConfigKeepsFileOrRoundTrips ==
    last_call.op = "save_config" =>
        IF Truthy(last_call.arg)
        THEN PipelineWrapper_load_config(pipeline_config[Wrapper]) = last_call.arg[1]
        ELSE pipeline_config[Wrapper] = last_call.content_before

\* save_config({}) on a wrapper whose file holds two keys.
C8_Witness ==
    /\ last_call.op = "save_config"
    /\ last_call.arg = Some({})
    /\ Len(last_call.content_before) = 2
    /\ pipeline_config[Wrapper] = last_call.content_before

\* The discovery failures of load_pipeline_instance and get_pipeline_class.
C9_Failures == {e \in errors_seen : e.fn \in {"load_pipeline_instance", "get_pipeline_class"}}
C9_Discovers ==
    /\ last_call.op \in {"load_pipeline_instance", "get_pipeline_class"}
    /\ last_call.op = "get_pipeline_class" => last_call.cache_before = None
    /\ Cardinality(last_call.files) # 1

\* C9 as the code has it: discovery on a repository with no plugin file and
\* on one with two or more fails, in load_pipeline_instance and in
\* get_pipeline_class alike, with the same error kind, FileNotFoundError; the
\* two cases differ by their message only.
C9_BothFailuresAreFileNotFoundError ==
    /\ \A e \in C9_Failures :
          /\ e.error.kind = "FileNotFoundError"
          /\ e.error.text = IF e.found = "zero"
                            THEN "No pipeline implementation found in"
                            ELSE "Multiple pipeline implementations found in"
    /\ C9_Discovers =>
          /\ last_call.result.error.kind = "FileNotFoundError"
          /\ \E e \in C9_Failures : e.fn = last_call.op /\ e.error = last_call.result.error

\* Both functions have failed on an empty repository and on one with two files.
C9_Witness ==
    \A fn \in {"load_pipeline_instance", "get_pipeline_class"} :
        \E e0, e2 \in C9_Failures :
            /\ e0.fn = fn /\ e0.found = "zero"
            /\ e2.fn = fn /\ e2.found = "multiple"
            /\ e0.error.kind = e2.error.kind
            /\ e0.error.text # e2.error.text

\* C9 as stated: the error kind of the zero-file failure differs from the
\* error kind of the multiple-file failure, in both functions.
C9_DifferentErrorKinds ==
    \A e0, e2 \in C9_Failures :
        (e0.fn = e2.fn /\ e0.found = "zero" /\ e2.found = "multiple") =>
            e0.error.kind # e2.error.kind

\* C10 as stated: when a plugin load has finished, returned or raised,
\* sys.path is what it was before the load, and no repository directory is
\* on it.
C10_SysPathRestoredAfterLoad ==
    /\ last_call.op \in LoadOps => sys_path = last_call.sys_path_before
    /\ \A i \in 1..Len(sys_path) : sys_path[i] # repo_dir(Wrapper)

(***************************************************************************)
(* Properties of the create handlers.                                      *)
(***************************************************************************)
\* The path a create call is asked to create.
CreateTarget ==
    IF outcome.handler = "create" THEN root_dir
    ELSE IF outcome.handler = "PipelineWrapper.create" THEN StandaloneRoot
    ELSE IF outcome.handler = "create_pipeline" THEN pipeline_root_dir(outcome.args[1])
    ELSE deployment_root_dir(outcome.args[1])
AlreadyExistsKind ==
    IF outcome.handler \in {"create", "PipelineWrapper.create"} THEN "FileExistsError"
    ELSE IF outcome.handler = "create_pipeline" THEN "CreatePipelineError"
    ELSE "CreateDeploymentError"
CreateEnded ==
    outcome.handler \in {"create", "PipelineWrapper.create", "create_pipeline", "create_deployment"}
OnExistingTarget == CreateEnded /\ CreateTarget \in outcome.value.disk
NothingChanged ==
    /\ disk = outcome.value.disk
    /\ pipeline_wrappers = outcome.value.pipeline_wrappers
    /\ deployment_wrappers = outcome.value.deployment_wrappers

\* C11: ProjectWrapper.create, PipelineWrapper.create, create_pipeline and
\* create_deployment called on a path that exists raise their already-exists
\* error (FileExistsError, FileExistsError, CreatePipelineError,
\* CreateDeploymentError) and leave the disk and both registries as they were.
C11_ExistingTargetRaisesAndChangesNothing ==
    OnExistingTarget =>
        /\ outcome.status = "raised"
        /\ outcome.error.kind = AlreadyExistsKind
        /\ NothingChanged

\* create_pipeline on the name of a registered pipeline, in a project that
\* has a deployment too.
C11_Witness ==
    /\ OnExistingTarget
    /\ outcome.handler = "create_pipeline"
    /\ outcome.args[1] \in SeqToSet(pipeline_wrappers)
    /\ deployment_wrappers # <<>>
    /\ outcome.error.kind = "CreatePipelineError"

\* C12 as stated: between the calls on one ProjectWrapper, the pipeline
\* registry holds exactly the subdirectories of pipelines/ and the deployment
\* registry exactly those of deployments/.
C12_RegistriesMatchDisk ==
    root_dir \in disk =>
        /\ SeqToSet(pipeline_wrappers) = subdirs(disk, pipeline_dir)
        /\ SeqToSet(deployment_wrappers) = subdirs(disk, deployments_dir)

\* C18 as stated: when create_pipeline has succeeded, every registered
\* deployment has a data directory for the new pipeline, and so every
\* registered (deployment, pipeline) pair has the data directory run_command
\* hands to the plugin.
C18_DataDirsOfRegisteredPairsExist ==
    /\ (outcome.handler = "create_pipeline" /\ outcome.status = "returned") =>
          \A d \in SeqToSet(deployment_wrappers) :
              get_pipeline_data_dir(d, outcome.args[1]) \in disk
    /\ \A d \in SeqToSet(deployment_wrappers), p \in SeqToSet(pipeline_wrappers) :
          get_pipeline_data_dir(d, p) \in disk

\* C19: a create_deployment(name) that returns has added to the disk the
\* deployment directory with its configuration file and one data directory
\* per pipeline registered when it was called, nothing else, and name is in
\* the deployment registry; with
\* a parent that is not registered it raises CreateDeploymentError and adds
\* nothing.
C19_CreateDeploymentCreatesDataDirs ==
    outcome.handler = "create_deployment" =>
        LET name == outcome.args[1]
            parent == outcome.args[2]
            before == outcome.value
        IN  /\ outcome.status = "returned" =>
                  /\ disk \ before.disk =
                        {deployment_root_dir(name), deployment_config_path(name)}
                        \cup {get_pipeline_data_dir(name, p) : p \in SeqToSet(before.pipeline_wrappers)}
                  /\ before.disk \subseteq disk
                  /\ name \in SeqToSet(deployment_wrappers)
            /\ (parent # None /\ parent \notin SeqToSet(before.deployment_wrappers)) =>
                  /\ outcome.status = "raised"
                  /\ outcome.error.kind = "CreateDeploymentError"
                  /\ disk = before.disk

\* A deployment created in a project where one pipeline is registered and
\* another name is not.
C19_Witness ==
    /\ outcome.handler = "create_deployment"
    /\ outcome.status = "returned"
    /\ Len(outcome.value.pipeline_wrappers) = 1
    /\ get_pipeline_data_dir(outcome.args[1], outcome.value.pipeline_wrappers[1]) \in disk
    /\ outcome.args[2] # None

(***************************************************************************)
(* Properties of the dispatch: the names given to run_command and compose. *)
(***************************************************************************)
NothingLoaded ==
    /\ frame.pipeline_to_run = <<>>
    /\ pipeline_class = [p \in PipelineNames |-> None]
    /\ sys_path = InitialSysPath

\* C13: run_command given a pipeline name or a deployment name that is not
\* registered raises RunCommandError with nothing loaded and nothing invoked;
\* given registered names, only that pipeline is loaded and only that pipeline
\* (that deployment) is invoked, and with both names given a run_command that
\* returns has made exactly one invocation, of that pair.
C13_NamedTargetsAreChecked ==
    RunCommandRuns =>
        /\ ~FiltersRegistered =>
              /\ pc = "done"
              /\ outcome.status = "raised"
              /\ outcome.error.kind = "RunCommandError"
              /\ NothingLoaded
              /\ invocations = <<>>
        /\ (FiltersRegistered /\ outcome.args[2] # None) =>
              /\ frame.pipelines = <<outcome.args[2]>>
              /\ \A i \in 1..Len(frame.pipeline_to_run) :
                    frame.pipeline_to_run[i][1] = outcome.args[2]
              /\ \A i \in 1..Len(invocations) : invocations[i].pipeline = outcome.args[2]
        /\ (FiltersRegistered /\ outcome.args[3] # None) =>
              /\ frame.deployments = <<outcome.args[3]>>
              /\ \A i \in 1..Len(invocations) : invocations[i].deployment = outcome.args[3]
        /\ (FiltersRegistered /\ outcome.args[2] # None /\ outcome.args[3] # None) =>
              /\ Len(invocations) <= 1
              /\ outcome.status = "returned" => Len(invocations) = 1

\* run_command on one pipeline and one deployment of a project that has two of
\* each.
C13_Witness ==
    /\ RunCommandEnded
    /\ outcome.status = "returned"
    /\ outcome.args[2] # None /\ outcome.args[3] # None
    /\ Len(pipeline_wrappers) = 2 /\ Len(deployment_wrappers) = 2
    /\ Len(invocations) = 1
    /\ invocations[1].pipeline = outcome.args[2]
    /\ invocations[1].deployment = outcome.args[3]

ComposeNames == outcome.args[2]
ComposeMissing == {i \in 1..Len(ComposeNames) : ComposeNames[i] \notin SeqToSet(deployment_wrappers)}
ComposeFirstMissing == ComposeNames[CHOOSE i \in ComposeMissing : \A j \in ComposeMissing : i <= j]
ComposePipelineRegistered == outcome.args[1] \in SeqToSet(pipeline_wrappers)

\* C14 as the code has it: compose raises NoSuchPipelineError when the
\* pipeline is not registered; when it is registered and its plugin loads,
\* compose raises NoSuchDeploymentError carrying the first name of
\* deployment_names that is not registered; when it is registered and its
\* plugin does not load, compose raises the load's error, whatever the
\* deployment names.  In all three cases run_compose is not invoked.
C14_ComposeChecksPipelineThenLoadThenDeployments ==
    ComposeEnded =>
        /\ ~ComposePipelineRegistered =>
              /\ outcome.status = "raised"
              /\ outcome.error = Error("NoSuchPipelineError", "", <<outcome.args[1]>>)
              /\ invocations = <<>>
        /\ (ComposePipelineRegistered /\ ~Loads(outcome.args[1])) =>
              /\ outcome.status = "raised"
              /\ outcome.error = FreshLoad(outcome.args[1]).error
              /\ invocations = <<>>
        /\ (ComposePipelineRegistered /\ Loads(outcome.args[1]) /\ ComposeMissing # {}) =>
              /\ outcome.status = "raised"
              /\ outcome.error = Error("NoSuchDeploymentError", "", <<ComposeFirstMissing>>)
              /\ invocations = <<>>

\* Two names are missing, the plugin loads, and the first one is reported.
C14_Witness ==
    /\ ComposeEnded
    /\ ComposePipelineRegistered
    /\ Loads(outcome.args[1])
    /\ Cardinality(ComposeMissing) = 2
    /\ ComposeNames[1] # ComposeNames[2]
    /\ outcome.error = Error("NoSuchDeploymentError", "", <<ComposeNames[1]>>)

\* C14 as stated: with the pipeline registered and a deployment name missing,
\* compose raises NoSuchDeploymentError carrying the first missing name.
C14_MissingDeploymentAlwaysReported ==
    ComposeEnded =>
        /\ ~ComposePipelineRegistered =>
              /\ outcome.error.kind = "NoSuchPipelineError"
              /\ invocations = <<>>
        /\ (ComposePipelineRegistered /\ ComposeMissing # {}) =>
              /\ outcome.error = Error("NoSuchDeploymentError", "", <<ComposeFirstMissing>>)
              /\ invocations = <<>>

(***************************************************************************)
(* Properties of the loader, continued.                                    *)
(***************************************************************************)
\* The concrete BasePipeline subclasses the module of file f defines.
ImplementationsOf(f) ==
    {module_dict(f)[i] : i \in {j \in 1..Len(module_dict(f)) :
                                   /\ is_pipeline_implementation(module_dict(f)[j])
                                   /\ abstract_methods(module_dict(f)[j]) = {}}}
C15_OneFileOneClass ==
    /\ last_call.op = "load_pipeline_instance"
    /\ Cardinality(last_call.files) = 1
    /\ \A f \in last_call.files :
          ~exec_module_raises(f) /\ Cardinality(ImplementationsOf(f)) = 1

\* C15 as stated: load_pipeline_instance on a repository with exactly one
\* *.pipeline.py file whose module defines exactly one concrete BasePipeline
\* subclass returns an instance of that subclass with root path repo_dir, the
\* configuration parsed from config_path and the dry_run it was given.
C15_LoaderReturnsConfiguredInstance ==
    C15_OneFileOneClass =>
        /\ last_call.result.error = NoError
        /\ last_call.result.value.class \in UNION {ImplementationsOf(f) : f \in last_call.files}
        /\ last_call.result.value.root_path = repo_dir(last_call.wrapper)
        /\ last_call.result.value.config = codec_parse(last_call.content_before)
        /\ last_call.result.value.dry_run = last_call.arg[1]

(***************************************************************************)
(* The CLI commands of main.py: the core call, then the except clauses.    *)
(***************************************************************************)
CliCommands == {"import", "package", "process", "distribute", "update", "install"}

\* The core calls a command makes inside its try block, in order.
core_calls(command) ==
    CASE command = "import"     -> <<"run_import">>
      [] command = "package"    -> <<"compose", "create_dataset">>
      [] command = "process"    -> <<"run_process">>
      [] command = "distribute" -> <<"distribute">>
      [] command = "update"     -> <<"update_pipelines">>
      [] command = "install"    -> <<"install_pipelines">>

\* The exception classes the except clauses name, and one they do not.
CliErrorKinds ==
    {"CompositionError", "NoSuchPipelineError", "NoSuchCollectionError", "ManifestError",
     "FileExistsError", "NetworkConnectionError", "NoSuchDatasetError", "NoSuchTargetError",
     "DistributionError", "RunCommandError", "InstallError"}
\* A fatal error of a core call, naming the entity it is about.
CliErrors == {Error(kind, "", <<name>>) : kind \in CliErrorKinds, name \in PipelineNames}

\* raise typer.Exit(): the exit code is the default of typer.Exit.
typer_Exit == [exit_code |-> 0]

\* The message of the except clause that catches an exception of this kind.
error_message(command, kind) ==
    CASE command = "import" -> "Error during import: "
      [] command = "package" ->
            (CASE kind = "CompositionError"      -> ""
               [] kind = "NoSuchPipelineError"   -> "No such pipeline: "
               [] kind = "NoSuchCollectionError" -> "No such collection: "
               [] kind = "ManifestError"         -> "Dataset is inconsistent with manifest at "
               [] kind = "FileExistsError"       -> "Dataset already exists: "
               [] OTHER                          -> "Could not package collection: ")
      [] command = "process" ->
            (CASE kind = "NetworkConnectionError" -> "No internet connection: "
               [] OTHER                           -> "Error during processing: ")
      [] command = "distribute" ->
            (CASE kind = "NoSuchDatasetError" -> "No such dataset: "
               [] kind = "NoSuchTargetError"  -> "No such target: "
               [] kind = "ManifestError"      -> "Dataset is inconsistent with manifest at "
               [] OTHER                       -> "Could not distribute dataset: ")
      [] command = "update"  -> "Could not update pipelines: "
      [] command = "install" -> "Could not install pipelines: "

\* What the process ends with: the panel printed and the exit code.
CliExit(panel, message, code) == [panel |-> panel, printed |-> message, exit_code |-> code]

\* The try block of a command: the core call `call` raises `error`, or all
\* the core calls return (call = None).
CliCoreCall(command, call, error) ==
    /\ pc = "idle"
    /\ call # None => call \in SeqToSet(core_calls(command))
    /\ outcome' = IF call = None
                  THEN Outcome(command, core_calls(command), "returned", NoError, <<>>)
                  ELSE Outcome(command, <<call>>, "raised", error, <<>>)
    /\ pc' = "cli_core"
    /\ UNCHANGED <<disk, constructed, pipeline_wrappers, deployment_wrappers, repo, pipeline_class, pipeline_config,
                   deployment_config, sys_path, frame, invocations, last_call, errors_seen>>

\* The except clause and what follows: print the panel, raise typer.Exit();
\* after the try block, the success panel and the end of the command.
CliHandle ==
    /\ pc = "cli_core"
    /\ outcome' = [outcome EXCEPT !.value =
                      IF outcome.status = "raised"
                      THEN CliExit("error",
                                   <<error_message(outcome.handler, outcome.error.kind)>>
                                   \o outcome.error.subject,
                                   typer_Exit.exit_code)
                      ELSE CliExit(IF outcome.handler \in {"update", "install"}
                                   THEN "none" ELSE "success", <<>>, 0)]
    /\ pc' = "exited"
    /\ UNCHANGED <<disk, constructed, pipeline_wrappers, deployment_wrappers, repo, pipeline_class, pipeline_config,
                   deployment_config, sys_path, frame, invocations, last_call, errors_seen>>

\* A project with every pipeline and deployment in place.
InitCli ==
    /\ InitProject
    /\ pipeline_wrappers = [i \in 1..NumPipelines |-> AllPipelineNames[i]]
    /\ deployment_wrappers = [i \in 1..NumDeployments |-> AllDeploymentNames[i]]
    /\ repo = [p \in PipelineNames |-> {"basic.pipeline.py"}]

NextCli ==
    \/ \E command \in CliCommands, call \in {"compose", "create_dataset", "run_import",
                                              "run_process", "distribute", "update_pipelines",
                                              "install_pipelines", None},
          error \in CliErrors :
            CliCoreCall(command, call, error)
    \/ CliHandle

SpecCli == InitCli /\ [][NextCli]_vars

(***************************************************************************)
(* Properties of the CLI commands.                                         *)
(***************************************************************************)
CliExited == pc = "exited"

\* C16 as stated: when a core call of a CLI command has raised, the command
\* prints an error message and the process exits with a non-zero status.
C16_FatalErrorExitsNonZero ==
    (CliExited /\ outcome.status = "raised") =>
        /\ outcome.value.panel = "error"
        /\ outcome.value.printed # <<>>
        /\ outcome.value.exit_code # 0

(***************************************************************************)
(* Properties of PipelineWrapper.get_instance.                             *)
(***************************************************************************)
\* A step that is a call of get_instance: the only other step of these
\* behaviours is an update, which records itself in last_call.
C17_GetInstanceStep == last_call'.op = "get_instance"
C17_EachCallConstructs ==
    C17_GetInstanceStep =>
        /\ last_call'.result.error = NoError =>
              /\ constructed'[Wrapper] = constructed[Wrapper] + 1
              /\ last_call'.result.value.class = pipeline_class'[Wrapper]
        /\ last_call'.result.error # NoError => constructed'[Wrapper] = constructed[Wrapper]
        /\ pipeline_class[Wrapper] # None =>
              /\ pipeline_class'[Wrapper] = pipeline_class[Wrapper]
              /\ ~last_call'.result.scanned

\* C17 as the code has it: a PipelineWrapper caches the plugin class, not the
\* plugin instance: every get_instance call that returns constructs a new
\* instance, of the cached class once a class is resolved, and a call that
\* raises constructs none.
C17_GetInstanceConstructsOnEveryCall == [][C17_EachCallConstructs]_vars

\* A second instance, constructed by a call that found the class in the cache.
C17_Witness ==
    /\ constructed[Wrapper] = 2
    /\ last_call.op = "get_instance"
    /\ last_call.cache_before # None
    /\ last_call.result.error = NoError

\* C17 as stated: the wrapper constructs its plugin instance once; a second
\* get_instance call returns that instance and constructs no other.
C17_InstanceConstructedOnce == constructed[Wrapper] <= 1

(***************************************************************************)
(* PipelineWrapper.install                                                 *)
(***************************************************************************)
\* The exit codes of the pip child process that are explored.
ReturnCodes == {0, 1, 2}

InstallError(text, cause) == Error("InstallError", text, cause)
\* What install ends with: the error it raises, whether Popen was called and
\* whether the child process ran to its end.
Installed(error, started, exited) == [error |-> error, started |-> started, exited |-> exited]

\* An install that does not test the exit code of the child process.
PipelineWrapper_install_any_returncode(present, still_present, pip_found, popen_raises, returncode) ==
    IF ~present
    THEN Installed(InstallError("Requirements file does not exist", <<>>), FALSE, FALSE)
    ELSE IF ~still_present
    THEN Installed(InstallError("", <<"InstallError", "Requirements file not found">>), FALSE, FALSE)
    ELSE IF ~pip_found
    THEN Installed(InstallError("", <<"InstallError", "pip executable not found in PATH">>),
                   FALSE, FALSE)
    ELSE IF popen_raises
    THEN Installed(InstallError("", <<"OSError">>), TRUE, FALSE)
    ELSE Installed(NoError, TRUE, TRUE)
\* PipelineWrapper.install: `present` is requirements_path.is_file() at line
\* 315, `still_present` the same test on the absolute path at line 320,
\* `pip_found` whether shutil.which finds pip, `popen_raises` whether Popen
\* raises, `returncode` the exit code of the child.
PipelineWrapper_install(present, still_present, pip_found, popen_raises, returncode) ==
    IF ~present
    THEN Installed(InstallError("Requirements file does not exist", <<>>), FALSE, FALSE)
    ELSE IF ~still_present
    THEN Installed(InstallError("", <<"InstallError", "Requirements file not found">>), FALSE, FALSE)
    ELSE IF ~pip_found
    THEN Installed(InstallError("", <<"InstallError", "pip executable not found in PATH">>),
                   FALSE, FALSE)
    ELSE IF popen_raises
    THEN Installed(InstallError("", <<"OSError">>), TRUE, FALSE)
    ELSE IF returncode # 0
    THEN Installed(InstallError("", <<"InstallError", "pip install had a non-zero return code">>),
                   TRUE, TRUE)
    ELSE Installed(NoError, TRUE, TRUE)

\* A call of PipelineWrapper.install.  The file can only be found missing at
\* line 320 if something removed it since line 315; it is never found there
\* when it was missing at line 315.
Install(vanishes, pip_found, popen_raises, returncode) ==
    /\ pc = "idle"
    /\ LET present == requirements_path(Wrapper) \in disk
       IN  last_call' = Call("install",
                             <<present, vanishes, pip_found, popen_raises, returncode>>,
                             PipelineWrapper_install(present, present /\ ~vanishes, pip_found,
                                                     popen_raises, returncode))
    /\ disk' = IF vanishes THEN disk \ {requirements_path(Wrapper)} ELSE disk
    /\ UNCHANGED <<constructed, pipeline_wrappers, deployment_wrappers, repo, pipeline_class,
                   pipeline_config, deployment_config, sys_path, pc, frame, invocations, outcome,
                   errors_seen>>

\* A wrapper whose repository has a requirements.txt, or has none.
InitInstall ==
    InitWrapperOn({codec_dump({<<"a", 1>>})},
                  {PipelineTree(Wrapper), PipelineTree(Wrapper) \cup {requirements_path(Wrapper)}})

NextInstall ==
    \E vanishes, pip_found, popen_raises \in BOOLEAN, returncode \in ReturnCodes :
        Install(vanishes, pip_found, popen_raises, returncode)

SpecInstall == InitInstall /\ [][NextInstall]_vars

(***************************************************************************)
(* Properties of PipelineWrapper.install.                                  *)
(***************************************************************************)
InstallCalled == last_call.op = "install"
InstallPresent == last_call.arg[1]
InstallVanishes == last_call.arg[2]
InstallPipFound == last_call.arg[3]
InstallReturnCode == last_call.arg[5]
InstallRaisesInstallError == last_call.result.error.kind = "InstallError"

ExtraArgStrings ==
    {<<"m", "=", "1">>, <<"m", "=", "2">>, <<"x", "=", "1">>, <<"=", "1">>, <<"m", "=">>,
     <<"x">>, <<"m", "=", "1", "=", "2">>, <<"=", "=">>, <<>>}
ExtraArgLists ==
    UNION {[1..n -> ExtraArgStrings] : n \in 0..MaxExtraArgs}
KwargsDicts ==
    {<<>>, << << <<"m">>, <<"0">> >> >>, << << <<"m">>, <<"0">> >>, << <<"n">>, <<"0">> >> >>}

\* The call of get_merged_keyword_args on the arguments chosen at the start.
MergeKeywordArgs ==
    /\ last_call.op = "arguments"
    /\ last_call' = Call("get_merged_keyword_args", last_call.arg,
                         get_merged_keyword_args(last_call.arg[1], last_call.arg[2]))
    /\ UNCHANGED <<disk, constructed, pipeline_wrappers, deployment_wrappers, repo,
                   pipeline_class, pipeline_config, deployment_config, sys_path, pc, frame,
                   invocations, outcome, errors_seen>>

\* The arguments of the call: any kwargs with any list of extra arguments.
InitMerge ==
    /\ pipeline_wrappers = <<>>
    /\ deployment_wrappers = <<>>
    /\ repo = [p \in PipelineNames |-> {}]
    /\ pipeline_class = [p \in PipelineNames |-> None]
    /\ pipeline_config = [p \in PipelineNames |-> <<>>]
    /\ deployment_config = [d \in DeploymentNames |-> <<>>]
    /\ sys_path = InitialSysPath
    /\ pc = "idle"
    /\ frame = IdleFrame
    /\ invocations = <<>>
    /\ outcome = NoOutcome
    /\ \E kwargs \in KwargsDicts, extra_args \in ExtraArgLists :
          last_call = [NoCall EXCEPT !.op = "arguments", !.arg = <<kwargs, extra_args>>]
    /\ errors_seen = {}
    /\ disk = {}
    /\ constructed = [p \in PipelineNames |-> 0]

NextMerge == MergeKeywordArgs

SpecMerge == InitMerge /\ [][NextMerge]_vars

(***************************************************************************)
(* Properties of get_merged_keyword_args.                                  *)
(***************************************************************************)
MergeCalled == last_call.op = "get_merged_keyword_args"
MergeKwargs == last_call.arg[1]
MergeExtraArgs == last_call.arg[2]
Merged == last_call.result.merged
\* The positions of "=" in a string.
EqualsAt(arg) == {i \in 1..Len(arg) : arg[i] = "="}
FirstEquals(arg) == CHOOSE i \in EqualsAt(arg) : \A j \in EqualsAt(arg) : i <= j
KeyOf(arg) == SubSeq(arg, 1, FirstEquals(arg) - 1)
ValueOf(arg) == SubSeq(arg, FirstEquals(arg) + 1, Len(arg))
\* The positions of the entries of extra_args with exactly one "=".
WellFormedAt == {i \in 1..Len(MergeExtraArgs) : Cardinality(EqualsAt(MergeExtraArgs[i])) = 1}
IsDict(d) == \A i, j \in 1..Len(d) : d[i][1] = d[j][1] => i = j

\* C21: get_merged_keyword_args returns a dict for every list of extra
\* argument strings; each entry with exactly one "=" contributes the text
\* before the "=" as a key of the result, its value being the text after the
\* "=" of some entry with that key; the entries without exactly one "=" are
\* the ones a warning is logged for, in order, and they contribute no key.
C21_MalformedEntriesDroppedWithWarning ==
    MergeCalled =>
        /\ IsDict(Merged)
        /\ \A i \in WellFormedAt :
              /\ DictHas(Merged, KeyOf(MergeExtraArgs[i]))
              /\ \E j \in WellFormedAt :
                    /\ KeyOf(MergeExtraArgs[j]) = KeyOf(MergeExtraArgs[i])
                    /\ DictGet(Merged, KeyOf(MergeExtraArgs[i])) = ValueOf(MergeExtraArgs[j])
        /\ last_call.result.warnings =
              SelectSeq(MergeExtraArgs, LAMBDA arg : Cardinality(EqualsAt(arg)) # 1)
        /\ SeqToSet(DictKeys(Merged)) =
              SeqToSet(DictKeys(MergeKwargs)) \cup {KeyOf(MergeExtraArgs[i]) : i \in WellFormedAt}

\* An entry with two "=" is dropped and the well-formed entry after it is
\* merged.
C21_Witness ==
    /\ MergeCalled
    /\ Len(MergeExtraArgs) = 2
    /\ MergeExtraArgs[1] = <<"m", "=", "1", "=", "2">>
    /\ MergeExtraArgs[2] = <<"x", "=", "1">>
    /\ last_call.result.warnings = <<MergeExtraArgs[1]>>
    /\ DictHas(Merged, <<"x">>)
    /\ ~DictHas(Merged, <<"m">>)

\* C28: a key of a well-formed extra argument has the value of the last
\* well-formed extra argument with that key, whether or not kwargs has the
\* key; a kwargs key that no well-formed extra argument names keeps its
\* value.
C28_ExtraArgsOverrideLastWins ==
    MergeCalled =>
        /\ \A i \in WellFormedAt :
              (\A j \in WellFormedAt : KeyOf(MergeExtraArgs[j]) = KeyOf(MergeExtraArgs[i]) => j <= i)
              => DictGet(Merged, KeyOf(MergeExtraArgs[i])) = ValueOf(MergeExtraArgs[i])
        /\ \A k \in SeqToSet(DictKeys(MergeKwargs)) :
              (\A i \in WellFormedAt : KeyOf(MergeExtraArgs[i]) # k)
              => (DictHas(Merged, k) /\ DictGet(Merged, k) = DictGet(MergeKwargs, k))

\* kwargs has m and n; m=1 and then m=2 are passed: m is 2 and n is kept.
C28_Witness ==
    /\ MergeCalled
    /\ DictHas(MergeKwargs, <<"m">>) /\ DictHas(MergeKwargs, <<"n">>)
    /\ MergeExtraArgs = << <<"m", "=", "1">>, <<"m", "=", "2">> >>
    /\ DictGet(Merged, <<"m">>) = <<"2">>
    /\ DictGet(Merged, <<"n">>) = <<"0">>

(***************************************************************************)
(* The plugin contract: a plugin class is constructed and one of the      *)
(* public operations of BasePipeline is called on the instance.            *)
(***************************************************************************)
\* The private method a public operation delegates to (lines 128, 145, 169).
delegate(operation) ==
    CASE operation = "run_import" -> "_import"
      [] operation = "run_process" -> "_process"
      [] operation = "run_compose" -> "_compose"

\* How an operation ended: the error raised, the value returned, the warnings
\* logged and the paths written.
Ran(error, value, warnings, written) ==
    [error |-> error, value |-> value, warnings |-> warnings, written |-> written]
NotRun == Ran(NoError, None, <<>>, {})

\* BasePipeline._import and _process log a warning and return None;
\* BasePipeline._compose raises NotImplementedError.
BasePipeline_method(method) ==
    IF method = "_compose"
    THEN Ran(Error("NotImplementedError", "", <<>>), None, <<>>, {})
    ELSE Ran(NoError, None, <<method>>, {})

\* A method the plugin class overrides: the plugin's code, which writes into
\* the data directory and returns a value of its own, or raises.
plugin_method(class, method, data_dir, raises) ==
    IF raises
    THEN Ran(Error("PluginError", "raised by the plugin's operation", data_dir), None, <<>>, {})
    ELSE Ran(NoError, <<class, method>>, <<>>, {data_dir \o <<"data">>})

\* run_import, run_process and run_compose of an instance.
run_operation(instance, operation, data_dir, raises) ==
    IF delegate(operation) \in class_overrides(instance.class)
    THEN plugin_method(instance.class, delegate(operation), data_dir, raises)
    ELSE BasePipeline_method(delegate(operation))

\* pipeline_class(...) and then instance.<operation>(data_dir, ...).
PluginCall(class, operation, d, raises) ==
    /\ pc = "idle"
    /\ LET made == instantiate(class, repo_dir(Wrapper), {}, FALSE)
           data_dir == get_pipeline_data_dir(d, Wrapper)
           ran == IF made.error # NoError THEN NotRun
                  ELSE run_operation(made.instance, operation, data_dir, raises)
       IN  /\ last_call' = Call("plugin_call", <<class, operation, d>>,
                                [made |-> made, called |-> made.error = NoError, ran |-> ran,
                                 disk_before |-> disk])
           /\ disk' = disk \cup ran.written
    /\ UNCHANGED <<constructed, pipeline_wrappers, deployment_wrappers, repo, pipeline_class,
                   pipeline_config, deployment_config, sys_path, pc, frame, invocations, outcome,
                   errors_seen>>

InitPlugin ==
    /\ InitWrapperOn({codec_dump({<<"a", 1>>})}, {ProjectTree({Wrapper}, DeploymentNames)})
    /\ repo[Wrapper] = {}

NextPlugin ==
    \E class \in PipelineClasses, operation \in BaseCommands, d \in DeploymentNames,
       raises \in BOOLEAN : PluginCall(class, operation, d, raises)

SpecPlugin == InitPlugin /\ [][NextPlugin]_vars

(***************************************************************************)
(* Properties of the plugin contract.                                      *)
(***************************************************************************)
PluginCalled == last_call.op = "plugin_call"
CalledClass == last_call.arg[1]
CalledOperation == last_call.arg[2]

\* C22: a plugin class that overrides _compose but neither _import nor
\* _process is instantiated, and its run_import and run_process return None
\* without an error, log a warning and write nothing; a plugin class without
\* _compose raises TypeError when it is instantiated, whatever operation was
\* going to be called, and no operation is called on it.
C22_DefaultsWarnAndAbstractClassFailsAtConstruction ==
    PluginCalled =>
        /\ ({"_import", "_process"} \cap class_overrides(CalledClass) = {}
            /\ "_compose" \in class_overrides(CalledClass)) =>
              /\ last_call.result.made.error = NoError
              /\ last_call.result.made.instance.class = CalledClass
              /\ CalledOperation \in {"run_import", "run_process"} =>
                    /\ last_call.result.called
                    /\ last_call.result.ran.error = NoError
                    /\ last_call.result.ran.value = None
                    /\ last_call.result.ran.warnings # <<>>
                    /\ disk = last_call.result.disk_before
        /\ "_compose" \notin class_overrides(CalledClass) =>
              /\ last_call.result.made.error.kind = "TypeError"
              /\ last_call.result.made.instance = NoInstance
              /\ ~last_call.result.called
              /\ disk = last_call.result.disk_before

\* run_process on a plugin that overrides only _compose, in a project where
\* another plugin has written data before.
C22_Witness ==
    /\ PluginCalled
    /\ CalledClass = "ComposeOnlyPipeline"
    /\ CalledOperation = "run_process"
    /\ last_call.result.ran.warnings = <<"_process">>
    /\ disk # ProjectTree({Wrapper}, DeploymentNames)

(***************************************************************************)
(* The two ways to a plugin instance, on one repository: get_instance of a *)
(* PipelineWrapper that was just constructed, and load_pipeline_instance.  *)
(***************************************************************************)
\* PipelineWrapper(root_dir, dry_run).get_instance(): the wrapper is new, so
\* its cache is None, and it is dropped after the call.
fresh_get_instance(files, dir, path, config_content, dry_run) ==
    get_instance(None, files, dir, path, config_content, dry_run)

FreshGetInstance(dry_run) ==
    /\ Len(sys_path) < MaxSysPath
    /\ PipelineWrapper_check_file_structure(disk, pipeline_root_dir(Wrapper))
    /\ LET got == fresh_get_instance(repo[Wrapper], repo_dir(Wrapper), sys_path,
                                     pipeline_config[Wrapper], dry_run)
       IN  /\ sys_path' = got.sys_path
           /\ last_call' = Call("get_instance", <<dry_run>>, got)
    /\ UNCHANGED <<disk, constructed, pipeline_wrappers, deployment_wrappers, repo, pipeline_class,
                   pipeline_config, deployment_config, pc, frame, invocations, outcome,
                   errors_seen>>

\* load_pipeline_instance(repo_dir, config_path, dry_run) on the same
\* repository; what it returned or raised is kept in `outcome`.
LoaderCall(dry_run) ==
    /\ Len(sys_path) < MaxSysPath
    /\ LET got == load_pipeline_instance(repo[Wrapper], repo_dir(Wrapper), sys_path,
                                         pipeline_config[Wrapper], dry_run)
       IN  /\ sys_path' = got.sys_path
           /\ outcome' = Outcome("load_pipeline_instance", <<dry_run>>,
                                 IF got.error = NoError THEN "returned" ELSE "raised",
                                 got.error, got.value)
    /\ UNCHANGED <<disk, constructed, pipeline_wrappers, deployment_wrappers, repo, pipeline_class,
                   pipeline_config, deployment_config, pc, frame, invocations, last_call,
                   errors_seen>>

InitFresh == InitWrapperWith({codec_dump(m) : m \in Mappings})

NextFresh ==
    \/ \E dry_run \in BOOLEAN : FreshGetInstance(dry_run)
    \/ \E dry_run \in BOOLEAN : LoaderCall(dry_run)

SpecFresh == InitFresh /\ [][NextFresh]_vars

(***************************************************************************)
(* Properties of the two ways to a plugin instance.                        *)
(***************************************************************************)
WrapperCalled == last_call.op = "get_instance"
LoaderCalled == outcome.handler = "load_pipeline_instance"
\* The repository holds one plugin file, whose module executes and defines
\* no concrete BasePipeline subclass.
OneFileNoConcreteClass ==
    /\ Cardinality(repo[Wrapper]) = 1
    /\ \A f \in repo[Wrapper] : ~exec_module_raises(f) /\ ImplementationsOf(f) = {}

\* C23 as stated: on a repository whose one plugin file defines no concrete
\* BasePipeline subclass, get_instance and load_pipeline_instance raise
\* ImportError and return no instance.
C23_NoConcreteClassRaisesImportError ==
    OneFileNoConcreteClass =>
        /\ WrapperCalled =>
              /\ last_call.result.error.kind = "ImportError"
              /\ last_call.result.value = NoInstance
        /\ LoaderCalled =>
              /\ outcome.error.kind = "ImportError"
              /\ outcome.value = NoInstance

ProjectWrapper_check_file_structure(d) == ProjectDirs \subseteq d

\* DeploymentWrapper._check_file_structure, called by its constructor: the
\* deployment directory with its configuration file.
DeploymentWrapper_check_file_structure(d, name) ==
    {deployment_root_dir(name), deployment_config_path(name)} \subseteq d

\* ProjectWrapper._load_deployments when iterdir lists the subdirectories of
\* deployments/ in the order `listing`.
ProjectWrapper_load_deployments(d, listing) ==
    LET bad == {i \in 1..Len(listing) : ~DeploymentWrapper_check_file_structure(d, listing[i])}
    IN  IF bad = {}
        THEN [error |-> NoError, wrappers |-> listing]
        ELSE LET first == CHOOSE i \in bad : \A j \in bad : i <= j
             IN  [error |-> Error("InvalidStructureError", "does not exist or is not a directory.",
                                  deployment_root_dir(listing[first])),
                  wrappers |-> SubSeq(listing, 1, first - 1)]

\* ProjectWrapper(root_dir).  pipeline_wrappers and deployment_wrappers are
\* the registries of the object under construction; the caller gets the
\* object only when the outcome is "returned".
ProjectWrapperInit(pipeline_listing, deployment_listing) ==
    /\ pc = "idle"
    /\ outcome = NoOutcome
    /\ pipeline_listing \in Perms(subdirs(disk, pipeline_dir))
    /\ deployment_listing \in Perms(subdirs(disk, deployments_dir))
    /\ IF ~ProjectWrapper_check_file_structure(disk)
       THEN /\ outcome' = Outcome("ProjectWrapper", <<>>, "raised",
                                  Error("InvalidStructureError",
                                        "does not exist or is not a directory.", root_dir), <<>>)
            /\ UNCHANGED <<pipeline_wrappers, deployment_wrappers>>
       ELSE LET pipelines == ProjectWrapper_load_pipeline(disk, pipeline_listing)
                deployments == ProjectWrapper_load_deployments(disk, deployment_listing)
            IN  /\ pipeline_wrappers' = pipelines.wrappers
                /\ IF pipelines.error # NoError
                   THEN /\ outcome' = Outcome("ProjectWrapper", <<>>, "raised", pipelines.error,
                                              <<>>)
                        /\ UNCHANGED deployment_wrappers
                   ELSE /\ deployment_wrappers' = deployments.wrappers
                        /\ outcome' = Outcome("ProjectWrapper", <<>>,
                                              IF deployments.error = NoError
                                              THEN "returned" ELSE "raised",
                                              deployments.error, <<>>)
    /\ UNCHANGED <<disk, constructed, repo, pipeline_class, pipeline_config, deployment_config,
                   sys_path, pc, frame, invocations, last_call, errors_seen>>

\* What a pipeline directory can lack.
PipelineDirStates(p) ==
    {{}, PipelineTree(p), PipelineTree(p) \ {repo_dir(p)}, PipelineTree(p) \ {config_path(p)}}

\* A project directory as it is found: with or without .marimba, every
\* pipeline directory absent, complete or lacking a part, every deployment
\* directory absent or present, with or without its configuration file.
InitOpen ==
    /\ pipeline_wrappers = <<>>
    /\ deployment_wrappers = <<>>
    /\ repo = [p \in PipelineNames |-> {}]
    /\ pipeline_class = [p \in PipelineNames |-> None]
    /\ pipeline_config = [p \in PipelineNames |-> <<>>]
    /\ deployment_config = [d \in DeploymentNames |-> codec_dump({})]
    /\ sys_path = InitialSysPath
    /\ pc = "idle"
    /\ frame = IdleFrame
    /\ invocations = <<>>
    /\ outcome = NoOutcome
    /\ last_call = NoCall
    /\ errors_seen = {}
    /\ \E top \in {ProjectDirs, ProjectDirs \ {marimba_dir}},
          trees \in [PipelineNames -> UNION {PipelineDirStates(p) : p \in PipelineNames}],
          present \in SUBSET DeploymentNames, configured \in SUBSET DeploymentNames :
            /\ configured \subseteq present
            /\ \A p \in PipelineNames : trees[p] \in PipelineDirStates(p)
            /\ disk = top \cup UNION {trees[p] : p \in PipelineNames}
                          \cup {deployment_root_dir(d) : d \in present}
                          \cup {deployment_config_path(d) : d \in configured}
    /\ constructed = [p \in PipelineNames |-> 0]

NextOpen ==
    \E pipeline_listing \in Enumerations(PipelineNames),
       deployment_listing \in Enumerations(DeploymentNames) :
        ProjectWrapperInit(pipeline_listing, deployment_listing)

SpecOpen == InitOpen /\ [][NextOpen]_vars

(***************************************************************************)
(* Properties of ProjectWrapper.__init__.                                  *)
(***************************************************************************)
ProjectWrapperConstructed == outcome.handler = "ProjectWrapper"
InvalidPipelineDirs ==
    {p \in subdirs(disk, pipeline_dir) :
        ~PipelineWrapper_check_file_structure(disk, pipeline_root_dir(p))}
InvalidDeploymentDirs ==
    {d \in subdirs(disk, deployments_dir) : ~DeploymentWrapper_check_file_structure(disk, d)}

\* C24: when a pipeline or deployment subdirectory of the project is invalid
\* the constructor raises InvalidStructureError, and a ProjectWrapper that is
\* returned has every subdirectory of pipelines/ and of deployments/ in its
\* registries.
C24_InvalidSubdirectoryFailsConstruction ==
    ProjectWrapperConstructed =>
        /\ (InvalidPipelineDirs # {} \/ InvalidDeploymentDirs # {}) =>
              /\ outcome.status = "raised"
              /\ outcome.error.kind = "InvalidStructureError"
        /\ outcome.status = "returned" =>
              /\ SeqToSet(pipeline_wrappers) = subdirs(disk, pipeline_dir)
              /\ SeqToSet(deployment_wrappers) = subdirs(disk, deployments_dir)

\* One pipeline was registered before the constructor met the invalid one.
C24_Witness ==
    /\ ProjectWrapperConstructed
    /\ ProjectWrapper_check_file_structure(disk)
    /\ Cardinality(InvalidPipelineDirs) = 1
    /\ Len(pipeline_wrappers) = 1
    /\ outcome.status = "raised"
    /\ outcome.error.kind = "InvalidStructureError"

(***************************************************************************)
(* Properties of run_command: the order of the invocations and the        *)
(* entries of the aggregate.                                               *)
(***************************************************************************)
\* The position of a name in a registry.
IndexIn(registry, name) == CHOOSE i \in 1..Len(registry) : registry[i] = name

\* C25: in the invocations of a run_command, an invocation for a deployment
\* that comes earlier in the deployment registry precedes every invocation
\* for a later one, and the invocations for one deployment follow the
\* pipeline registry.
C25_InvocationsAreDeploymentMajor ==
    RunCommandRuns =>
        \A i, j \in 1..Len(invocations) :
            i < j =>
                \/ IndexIn(deployment_wrappers, invocations[i].deployment)
                      < IndexIn(deployment_wrappers, invocations[j].deployment)
                \/ /\ invocations[i].deployment = invocations[j].deployment
                   /\ IndexIn(pipeline_wrappers, invocations[i].pipeline)
                         < IndexIn(pipeline_wrappers, invocations[j].pipeline)

\* Two deployments and two pipelines, all four pairs invoked.
C25_Witness ==
    /\ RunCommandEnded
    /\ outcome.status = "returned"
    /\ Len(invocations) = 4
    /\ invocations[1].deployment = invocations[2].deployment
    /\ invocations[3].deployment = invocations[4].deployment
    /\ invocations[1].deployment # invocations[3].deployment
    /\ invocations[1].pipeline # invocations[2].pipeline

\* C26: every entry [d][p] of the aggregate run_command returns is what the
\* operation of pipeline p's instance returned when called with the data
\* directory of p in d, the configuration loaded from d and the merged
\* keyword arguments, and that call is the one invocation made for (d, p).
C26_EntryIsResultOfItsOwnPair ==
    (RunCommandEnded /\ outcome.status = "returned") =>
        \A x \in 1..Len(outcome.value) :
            \A y \in 1..Len(outcome.value[x][2]) :
                LET d == outcome.value[x][1]
                    p == outcome.value[x][2][y][1]
                    entry == outcome.value[x][2][y][2]
                IN  /\ d \in SeqToSet(TargetDeployments)
                    /\ p \in SeqToSet(TargetPipelines)
                    /\ entry = [by |-> FreshLoad(p).value.class,
                                command |-> RequestedCommand,
                                data_dir |-> get_pipeline_data_dir(d, p),
                                config |-> codec_parse(deployment_config[d]),
                                kwargs |-> frame.merged_kwargs]
                    /\ \A i \in InvocationsOf(d, p) :
                          /\ invocations[i].data_dir = get_pipeline_data_dir(d, p)
                          /\ invocations[i].config = codec_parse(deployment_config[d])
                          /\ invocations[i].kwargs = frame.merged_kwargs
                    /\ Cardinality(InvocationsOf(d, p)) = 1

\* One pipeline and two deployments: two entries, with different data
\* directories and configurations.
C26_Witness ==
    /\ RunCommandEnded
    /\ outcome.status = "returned"
    /\ Len(pipeline_wrappers) = 1
    /\ Len(outcome.value) = 2
    /\ outcome.value[1][2][1][2].data_dir # outcome.value[2][2][1][2].data_dir
    /\ outcome.value[1][2][1][2].config # outcome.value[2][2][1][2].config

(***************************************************************************)
(* One PipelineWrapper whose class and instance are asked for between      *)
(* updates of its repository.                                              *)
(***************************************************************************)
NextCache ==
    \/ GetPipelineClass
    \/ GetInstance
    \/ \E raises \in BOOLEAN, pulled \in PulledStates : Update(raises, pulled)

SpecCache == InitWrapper /\ [][NextCache]_vars

\* A step taken by a wrapper that has a cached class.
C27_CachedClassSurvives ==
    pipeline_class[Wrapper] # None =>
        /\ pipeline_class'[Wrapper] = pipeline_class[Wrapper]
        /\ last_call'.op = "get_pipeline_class" =>
              last_call'.result.value = pipeline_class[Wrapper]
        /\ (last_call'.op = "get_instance" /\ last_call'.result.error = NoError) =>
              last_call'.result.value.class = pipeline_class[Wrapper]
        /\ (last_call'.op = "get_instance" /\ last_call'.result.error # NoError) =>
              last_call'.result.error.subject = <<pipeline_class[Wrapper]>>

\* C27: once the wrapper has cached a class, an update leaves the cache as it
\* is, whatever the pull does to the repository, and every later
\* get_pipeline_class returns the cached class and every later get_instance
\* instantiates it.
C27_UpdateDoesNotChangeCachedClass == [][C27_CachedClassSurvives]_vars

\* BasicPipeline was cached, an update replaced the plugin file by one that
\* defines CustomPipeline, and get_instance still returns a BasicPipeline.
C27_Witness ==
    /\ last_call.op = "get_instance"
    /\ last_call.cache_before = "BasicPipeline"
    /\ last_call.files = {"custom.pipeline.py"}
    /\ last_call.result.error = NoError
    /\ last_call.result.value.class = "BasicPipeline"

(***************************************************************************)
(* Properties of the class cache after a discovery that did not succeed.   *)
(***************************************************************************)
DiscoveryCalled == last_call.op = "get_pipeline_class" /\ last_call.cache_before = None
DiscoveryFailed == last_call.result.error # NoError \/ last_call.result.value = None

\* C29: a get_pipeline_class call on a wrapper without a cached class scans
\* the repository as it is now; if it raises or finds no class the cache stays
\* absent, and the cache is set only to a BasePipeline subclass the discovery
\* returned; on a repository with one plugin file that executes and defines a
\* subclass the call resolves it, whatever earlier calls ran into.
C29_FailedDiscoveryLeavesCacheAbsent ==
    DiscoveryCalled =>
        /\ last_call.result.scanned
        /\ DiscoveryFailed => pipeline_class[Wrapper] = None
        /\ pipeline_class[Wrapper] # None =>
              /\ is_pipeline_implementation(pipeline_class[Wrapper])
              /\ pipeline_class[Wrapper] = last_call.result.value
              /\ last_call.result.error = NoError
        /\ (Cardinality(last_call.files) = 1
            /\ \A f \in last_call.files :
                  /\ ~exec_module_raises(f)
                  /\ \E i \in 1..Len(module_dict(f)) : is_pipeline_implementation(module_dict(f)[i])) =>
              /\ last_call.result.error = NoError
              /\ pipeline_class[Wrapper] # None

\* A discovery that resolves BasicPipeline after an earlier one failed on a
\* repository without plugin file.
C29_Witness ==
    /\ DiscoveryCalled
    /\ last_call.result.value = "BasicPipeline"
    /\ pipeline_class[Wrapper] = "BasicPipeline"
    /\ \E e \in errors_seen : e.fn = "get_pipeline_class" /\ e.found = "zero"

====
